---- MODULE Spec2Model ----
(***************************************************************************)
(* A model of the taxify document pipeline: page classification and range  *)
(* detection (forms/*/extractor.py), the /get-pages and /extract-form      *)
(* handlers with their retry loops (api.py), and the Schedule K-3          *)
(* multi-page consolidation (forms/form_k3/extractor.py).                  *)
(*                                                                         *)
(* Three specifications share the variables; each leaves the variables of  *)
(* the other two parts at their initial values.                            *)
(*   SpecDetect : a document, and the four page detectors run on it        *)
(*   SpecApi    : one request to /get-pages or /extract-form               *)
(*   SpecK3     : MultiPageK3Processor.process_pdf on a document           *)
(***************************************************************************)
EXTENDS Integers, Sequences, FiniteSets, TLC

VARIABLES
    \* ---- detection (SpecDetect, SpecK3) ----
    doc,                    \* the PDF: a sequence of page texts
    k1_detected_pages,      \* st.session_state.k1_detected_pages
    k3_detected_ranges,     \* st.session_state.k3_detected_ranges
    detected_ranges_8805,   \* st.session_state.detected_ranges_8805
    detected_ranges_8804,   \* st.session_state.detected_ranges_8804
    detected,               \* the keys present in st.session_state
    \* ---- api.py handlers (SpecApi) ----
    endpoint,               \* "get-pages" | "extract-form" | "none"
    request,                \* request.pages of /extract-form
    pc,                     \* position of the handler
    pages_by_type,          \* ordered dict: sequence of [type, pages]
    type_idx,               \* index of the form type being processed
    chunk_idx,              \* 0-based offset of the current chunk
    attempt,                \* attempts made for the current backend call
    retry_delay,            \* seconds the next sleep will take
    last_error,             \* the exception of the latest failed attempt
    trace,                  \* attempts and sleeps of the current backend call
    contents,               \* page numbers of the images of the latest call
    chunks_sent,            \* chunks handed to the backend: [type, pages]
    all_page_results,
    total_forms_extracted,
    response,               \* the handler's HTTP response
    history,                \* rows of the extractions table (save_entry)
    save_calls,             \* calls of history_manager.save_entry
    model_responses,        \* the backend's answer to each chunk, in call order
    \* ---- MultiPageK3Processor (SpecK3) ----
    k3_pc,
    k3_pages,               \* detect_k3_pages(pdf_bytes)
    page_images,            \* page numbers rendered to images
    page_pos,               \* pages of page_images already extracted
    returned,               \* what extractor.extract returned or raised, per page
    raw_results,
    document_metadata,
    partner_name,
    all_part_data,
    k3_result,
    \* ---- MultiPage8805Processor / MultiPage8804Processor (SpecRanges) ----
    processor,              \* "8805" or "8804"
    pp_pc,
    page_ranges,            \* detect_8805_page_ranges / detect_8804_page_ranges
    pages_to_extract,
    range_images,           \* page numbers rendered to images
    range_pos,              \* ranges already extracted
    all_forms,
    pp_result,
    \* ---- transform_to_*_structure (SpecNormalize) ----
    nz_pc,
    nz_form,                \* "W-2", "1099-INT" or "K-1"
    raw_result,             \* the parsed model output handed to the transformer
    transformed,            \* the transformer's output
    retransformed,          \* the transformer applied to its own output
    \* ---- FormK3Extractor / Form8804Extractor / Form8805Extractor / VisionClient (SpecExtract) ----
    extractor,              \* the class whose extract() runs
    model,                  \* the requested model id
    clients,                \* which clients __init__ could build
    ex_pc,                  \* the position inside extract()
    calls,                  \* the backend calls made so far, in order
    ex_result               \* what extract() returned

detectVars == <<doc, k1_detected_pages, k3_detected_ranges,
                detected_ranges_8805, detected_ranges_8804, detected>>
apiVars == <<endpoint, request, pc, pages_by_type, type_idx, chunk_idx, attempt,
             retry_delay, last_error, trace, contents, chunks_sent,
             all_page_results, total_forms_extracted, response, history,
             save_calls, model_responses>>
k3Vars == <<k3_pc, k3_pages, page_images, page_pos, returned, raw_results,
            document_metadata, partner_name, all_part_data, k3_result>>
rangeVars == <<processor, pp_pc, page_ranges, pages_to_extract, range_images,
               range_pos, all_forms, pp_result>>
\* the parts of the state no action of SpecDetect, SpecApi or SpecK3 touches
normVars == <<nz_pc, nz_form, raw_result, transformed, retransformed>>
extractVars == <<extractor, model, clients, ex_pc, calls, ex_result>>
laterVars == <<rangeVars, normVars, extractVars>>
vars == <<detectVars, apiVars, k3Vars, laterVars>>

(***************************************************************************)
(* Bounds of the model.                                                    *)
(***************************************************************************)
MaxDocPages == 9
MaxTokens == 3
MaxReqPages == 12

(***************************************************************************)
(* Page text.  A page's text is the set of printed phrases on it; a        *)
(* substring test `phrase in text` holds when some printed phrase contains *)
(* the searched phrase.                                                     *)
(***************************************************************************)
Tokens ==
    { "Schedule K-1", "(Form 1065)", "Part I", "Part II",
      "Information About the Partnership", "Schedule K-3",
      "Form 8805", "8805", "Foreign Partner's Information Statement",
      "Copy A", "Section 1446", "(Form 8804)", "Form 8804",
      "Annual Return for Partnership Withholding Tax",
      "Partner's Section 1446 Withholding Tax",
      "Withholding Agent", "withholding agent" }

\* The searched phrases that occur inside a printed phrase (Python `in`).
SubstringsOf(tok) ==
    {tok} \cup
    CASE tok = "Part II" -> {"Part I"}
      [] tok = "Information About the Partnership" -> {"Partnership"}
      [] tok = "Form 8805" -> {"8805"}
      [] tok = "Foreign Partner's Information Statement" ->
             {"Foreign Partner's Information"}
      [] tok = "(Form 8804)" -> {"Form 8804"}
      [] tok = "Annual Return for Partnership Withholding Tax" -> {"Partnership"}
      [] tok = "Partner's Section 1446 Withholding Tax" -> {"Section 1446"}
      [] OTHER -> {}

In(phrase, text) == \E tok \in text : phrase \in SubstringsOf(tok)

\* `phrase in text.lower()`: the text is lower-cased, the phrase is not, so
\* a phrase with a capital letter never matches.
LowerOf(tok) ==
    CASE tok = "Withholding Agent" -> {"withholding agent"}
      [] tok = "withholding agent" -> {"withholding agent"}
      [] OTHER -> {}

InLower(phrase, text) == \E tok \in text : phrase \in LowerOf(tok)

(***************************************************************************)
(* The four page predicates.                                               *)
(***************************************************************************)
\* MultiPageK1Processor.detect_k1_pages, the test of one page
IsK1StartPage(text) ==
    LET has_schedule_k1 == In("Schedule K-1", text)
        has_form_1065 == In("(Form 1065)", text)
        has_k1_header == has_schedule_k1 /\ has_form_1065
        has_part_i == In("Part I", text)
                      /\ In("Information About the Partnership", text)
    IN  has_k1_header /\ has_part_i

\* The K-3 test without its exclusion of "Schedule K-1".
IsK3PageIgnoringK1(text) == In("Schedule K-3", text)

\* MultiPageK3Processor.detect_k3_page_ranges, the test of one page
IsK3Page(text) ==
    LET has_k3 == In("Schedule K-3", text)
        has_k1 == In("Schedule K-1", text)
    IN  has_k3 /\ ~has_k1

\* MultiPage8805Processor.detect_8805_page_ranges, the test of one page
Is8805Page(text) ==
    LET has_form_8805 == In("Form 8805", text)
        has_title == In("Foreign Partner's Information Statement", text)
        has_copy == (In("Copy A", text) \/ In("Copy B", text)
                     \/ In("Copy C", text) \/ In("Copy D", text))
                    /\ In("8805", text)
        has_section_1446 == In("Section 1446", text) /\ In("Form 8805", text)
        is_k1_8804 == In("Schedule K-1", text) /\ In("(Form 8804)", text)
        is_main_8804 == In("Form 8804", text)
                        /\ In("Annual Return for Partnership Withholding Tax", text)
        is_any_8804 == is_k1_8804 \/ is_main_8804
                       \/ (In("Form 8804", text) /\ In("Schedule K-1", text))
        is_k1 == In("Schedule K-1", text) /\ In("(Form 1065)", text)
        is_k3 == In("Schedule K-3", text)
    IN  (has_form_8805 \/ has_title \/ has_section_1446 \/ has_copy)
        /\ ~is_any_8804 /\ ~is_k1 /\ ~is_k3

\* MultiPage8804Processor.detect_8804_page_ranges, the test of one page
Is8804Page(text) ==
    LET has_form_8804_exact == In("Form 8804", text) /\ ~In("Schedule K-1", text)
        has_main_title == In("Annual Return for Partnership Withholding Tax", text)
        has_schedule_k1_8804 == In("Schedule K-1", text) /\ In("(Form 8804)", text)
        has_partner_1446_title == In("Partner's Section 1446 Withholding Tax", text)
        has_part_i == In("Part I", text)
                      /\ (In("Partnership", text)
                          \/ InLower("Name of partnership", text))
        has_part_ii == In("Part II", text)
                       /\ (In("Withholding Agent", text)
                           \/ InLower("withholding agent", text))
        is_8805 == In("Form 8805", text)
                   \/ In("Foreign Partner's Information Statement", text)
                   \/ (In("Foreign Partner's Information", text)
                       /\ In("Form 8805", text))
        is_standard_k1 == In("Schedule K-1", text) /\ In("(Form 1065)", text)
        is_k3 == In("Schedule K-3", text)
        is_schedule_k1_8804 == (has_schedule_k1_8804 \/ has_partner_1446_title)
                               /\ ~is_standard_k1 /\ ~is_8805
        is_main_8804 == has_form_8804_exact
                        /\ (has_main_title \/ (has_part_i /\ has_part_ii))
                        /\ ~is_8805
    IN  (is_schedule_k1_8804 \/ is_main_8804)
        /\ ~is_8805 /\ ~is_k3 /\ ~is_standard_k1

(***************************************************************************)
(* Scanning a document and grouping the matched pages.                     *)
(***************************************************************************)
\* max_page_to_scan = int(total_pages * max_scan_percentage / 100)
MaxPageToScan(total_pages, max_scan_percentage) ==
    (total_pages * max_scan_percentage) \div 100

\* The pages of S in increasing order.
RECURSIVE Ascending(_)
Ascending(S) ==
    IF S = {} THEN <<>>
    ELSE LET m == CHOOSE x \in S : \A y \in S : x <= y
         IN  <<m>> \o Ascending(S \ {m})

\* for page_num in range(max_page_to_scan): if match: pages.append(page_num + 1)
\* The page test of the detector of `form`.
Matches(form, text) ==
    CASE form = "K-1" -> IsK1StartPage(text)
      [] form = "K-3" -> IsK3Page(text)
      [] form = "8805" -> Is8805Page(text)
      [] form = "8804" -> Is8804Page(text)

ScanPages(d, max_scan_percentage, form) ==
    Ascending({p \in 1..MaxPageToScan(Len(d), max_scan_percentage) :
                 Matches(form, d[p])})

\* A gap closes the current range only when the page is not end + 2 either.
RECURSIVE GroupLoopBridging(_, _, _, _)
GroupLoopBridging(rest, start, end, ranges) ==
    IF rest = <<>> THEN Append(ranges, <<start, end>>)
    ELSE IF Head(rest) <= end + 2
         THEN GroupLoopBridging(Tail(rest), start, Head(rest), ranges)
         ELSE GroupLoopBridging(Tail(rest), Head(rest), Head(rest),
                                Append(ranges, <<start, end>>))

\* The second pass: for page in pages[1:] ...; ranges.append((start, end))
RECURSIVE GroupLoop(_, _, _, _)
GroupLoop(rest, start, end, ranges) ==
    IF rest = <<>> THEN Append(ranges, <<start, end>>)
    ELSE IF Head(rest) = end + 1
         THEN GroupLoop(Tail(rest), start, Head(rest), ranges)
         ELSE GroupLoop(Tail(rest), Head(rest), Head(rest),
                        Append(ranges, <<start, end>>))

GroupConsecutive(pages) ==
    IF pages = <<>> THEN <<>>
    ELSE GroupLoop(Tail(pages), pages[1], pages[1], <<>>)

detect_k1_pages(d, max_scan_percentage) ==
    ScanPages(d, max_scan_percentage, "K-1")

detect_k3_page_ranges(d, max_scan_percentage) ==
    GroupConsecutive(ScanPages(d, max_scan_percentage, "K-3"))

detect_8805_page_ranges(d, max_scan_percentage) ==
    GroupConsecutive(ScanPages(d, max_scan_percentage, "8805"))

detect_8804_page_ranges(d, max_scan_percentage) ==
    GroupConsecutive(ScanPages(d, max_scan_percentage, "8804"))

\* The default of max_scan_percentage: 85.0 for K-1, 100.0 for the others.
K1ScanDefault == 85
ScanDefault == 100

(***************************************************************************)
(* Documents.                                                              *)
(***************************************************************************)
Blank == {}
K3Sheet == {"Schedule K-3"}
K1Sheet == {"Schedule K-1", "(Form 1065)", "Part I",
            "Information About the Partnership"}
\* A partner's withholding statement whose copy line refers to form 8805.
CopySheet1446 == {"Partner's Section 1446 Withholding Tax", "Copy A", "8805"}

SampleTexts == {K3Sheet, K1Sheet, CopySheet1446}

\* One page with any few phrases, or up to MaxDocPages pages of which some
\* carry one sample text and the others are blank.
\* Twelve pages: a run of K-3 pages that starts at page 1 or 2 and ends at
\* page 11 or 12, the other pages blank or K-1 pages.
ScenarioDocuments ==
    { [i \in 1..12 |-> IF i \in a..b THEN K3Sheet ELSE other] :
        a \in 1..2, b \in 11..12, other \in {Blank, K1Sheet} }

Documents ==
    { <<text>> : text \in {t \in SUBSET Tokens : Cardinality(t) <= MaxTokens} }
    \cup
    UNION { { [i \in 1..n |-> IF i \in S THEN fg ELSE Blank] :
                S \in SUBSET (1..n), fg \in SampleTexts } : n \in 0..MaxDocPages }
    \cup ScenarioDocuments

DetectIdle ==
    /\ doc = <<>>
    /\ k1_detected_pages = <<>>
    /\ k3_detected_ranges = <<>>
    /\ detected_ranges_8805 = <<>>
    /\ detected_ranges_8804 = <<>>
    /\ detected = {}

InitDetect ==
    /\ doc \in Documents
    /\ k1_detected_pages = <<>>
    /\ k3_detected_ranges = <<>>
    /\ detected_ranges_8805 = <<>>
    /\ detected_ranges_8804 = <<>>
    /\ detected = {}

(***************************************************************************)
(* The detectors, as the review pages of app.py call them.                 *)
(***************************************************************************)
DetectK1 ==
    /\ "k1_detected_pages" \notin detected
    /\ k1_detected_pages' = detect_k1_pages(doc, K1ScanDefault)
    /\ detected' = detected \cup {"k1_detected_pages"}
    /\ UNCHANGED <<laterVars, apiVars, k3Vars, doc, k3_detected_ranges, detected_ranges_8805,
                   detected_ranges_8804>>

DetectK3 ==
    /\ "k3_detected_ranges" \notin detected
    /\ k3_detected_ranges' = detect_k3_page_ranges(doc, ScanDefault)
    /\ detected' = detected \cup {"k3_detected_ranges"}
    /\ UNCHANGED <<laterVars, apiVars, k3Vars, doc, k1_detected_pages, detected_ranges_8805,
                   detected_ranges_8804>>

Detect8805 ==
    /\ "detected_ranges_8805" \notin detected
    /\ detected_ranges_8805' = detect_8805_page_ranges(doc, ScanDefault)
    /\ detected' = detected \cup {"detected_ranges_8805"}
    /\ UNCHANGED <<laterVars, apiVars, k3Vars, doc, k1_detected_pages, k3_detected_ranges,
                   detected_ranges_8804>>

Detect8804 ==
    /\ "detected_ranges_8804" \notin detected
    /\ detected_ranges_8804' = detect_8804_page_ranges(doc, ScanDefault)
    /\ detected' = detected \cup {"detected_ranges_8804"}
    /\ UNCHANGED <<laterVars, apiVars, k3Vars, doc, k1_detected_pages, k3_detected_ranges,
                   detected_ranges_8805>>

(***************************************************************************)
(* api.py: requests, backend errors and backend responses.                 *)
(***************************************************************************)
MAX_PAGES_PER_BATCH == 10
max_retries == 3
InitialRetryDelay == 2

FormTypes == {"W-2", "1099-INT", "1098"}
\* registry.json: the form types with a prompt configuration.
Registry == {"W-2", "1099-INT"}

\* load_prompt_for_form(form_type) returns a configuration (not None)
load_prompt_for_form(form_type) == form_type \in Registry

\* request.pages: pages numbered by position, all of one detected type but
\* at most one page of another.
Requests ==
    UNION { { [i \in 1..n |-> [page_number |-> i,
                               detected_type |-> IF i = k THEN t2 ELSE t1]] :
                t1 \in FormTypes, t2 \in FormTypes, k \in 0..n } :
            n \in 0..MaxReqPages }

\* An exception of the backend call: the HTTP status its message names and
\* whether the message says the model is overloaded.
Errors ==
    { [http |-> 429, overloaded |-> FALSE],
      [http |-> 503, overloaded |-> TRUE],
      [http |-> 503, overloaded |-> FALSE],
      [http |-> 529, overloaded |-> TRUE],
      [http |-> 401, overloaded |-> FALSE],
      [http |-> 400, overloaded |-> FALSE] }

NoError == [http |-> 0, overloaded |-> FALSE]

\* "503" in str(e), "429" in str(e), "overloaded" in str(e).lower()
StrHas503(e) == e.http = 503
StrHas429(e) == e.http = 429
StrHasOverloaded(e) == e.overloaded

\* The retry test of /get-pages (api.py:306), without the attempt bound
RetryableGetPages(e) == StrHas503(e) \/ StrHas429(e)

\* The retry test of /extract-form (api.py:688), without the attempt bound
RetryableExtractForm(e) == StrHas503(e) \/ StrHas429(e) \/ StrHasOverloaded(e)

\* One attempt too many: attempt < max_retries
MayRetryOnceMore(att) == att < max_retries

\* attempt < max_retries - 1
MayRetry(att) == att < max_retries - 1

\* retry_delay *= 2
NextDelay(delay) == delay * 2

(***************************************************************************)
(* Grouping and chunking of /extract-form.                                 *)
(***************************************************************************)
\* pages_by_type: a dict in insertion order, as a sequence of its items
RECURSIVE GroupByTypeLoop(_, _)
GroupByTypeLoop(rest, acc) ==
    IF rest = <<>> THEN acc
    ELSE LET page == Head(rest)
             at == {i \in 1..Len(acc) : acc[i].type = page.detected_type}
         IN  IF at = {}
             THEN GroupByTypeLoop(Tail(rest),
                      Append(acc, [type |-> page.detected_type,
                                   pages |-> <<page>>]))
             ELSE LET i == CHOOSE j \in at : TRUE
                  IN  GroupByTypeLoop(Tail(rest),
                          [acc EXCEPT ![i].pages = Append(@, page)])

GroupByType(pages) == GroupByTypeLoop(pages, <<>>)

Min(a, b) == IF a <= b THEN a ELSE b

\* The slice runs one page past the batch size.
ChunkOfOverlapping(pages, idx) ==
    SubSeq(pages, idx + 1, Min(idx + MAX_PAGES_PER_BATCH + 1, Len(pages)))

\* chunk = pages[chunk_idx:chunk_idx + MAX_PAGES_PER_BATCH]
ChunkOf(pages, idx) ==
    SubSeq(pages, idx + 1, Min(idx + MAX_PAGES_PER_BATCH, Len(pages)))

PageNumbers(pages) == [i \in 1..Len(pages) |-> pages[i].page_number]

CurrentPages == pages_by_type[type_idx].pages
CurrentType == pages_by_type[type_idx].type
CurrentChunk == ChunkOf(CurrentPages, chunk_idx)

(***************************************************************************)
(* The backend's answer to a chunk and its parsing.                        *)
(***************************************************************************)
\* What the model answers for a chunk: a response the SDK parsed into
\* TaxFormData (with no form, or with one form seen on the chunk's last
\* page), or raw text (JSON with one form that names the chunk's last page,
\* JSON with three forms of which one names the last page, one names no page
\* and one names page 0, or text that is not JSON).
BackendResponses(chunk) ==
    LET last == chunk[Len(chunk)].page_number
    IN  { [parsed |-> TRUE, json_ok |-> TRUE, forms |-> <<>>],
          [parsed |-> TRUE, json_ok |-> TRUE,
           forms |-> <<[form_name |-> "form", page_number |-> last]>>],
          [parsed |-> FALSE, json_ok |-> TRUE,
           forms |-> <<[form_name |-> "form", page_number |-> last]>>],
          [parsed |-> FALSE, json_ok |-> TRUE,
           forms |-> <<[form_name |-> "form", page_number |-> last],
                       [form_name |-> "copy"],
                       [form_name |-> "stray", page_number |-> 0]>>],
          [parsed |-> FALSE, json_ok |-> FALSE, forms |-> <<>>] }

\* chunk_forms: FormInstance has no page_number field, so the dicts built from
\* response.parsed carry none; the raw JSON fallback keeps the model's dicts.
ChunkForms(resp) ==
    IF resp.parsed
    THEN [i \in 1..Len(resp.forms) |-> [form_name |-> resp.forms[i].form_name]]
    ELSE IF resp.json_ok THEN resp.forms ELSE <<>>

\* form.get("page_number", default)
GetPageNumber(form, default) ==
    IF "page_number" \in DOMAIN form THEN form.page_number ELSE default

\* The first occurrences of the elements of a sequence, in order (dict keys).
RECURSIVE FirstOccurrences(_, _)
FirstOccurrences(seq, acc) ==
    IF seq = <<>> THEN acc
    ELSE IF \E i \in 1..Len(acc) : acc[i] = Head(seq)
         THEN FirstOccurrences(Tail(seq), acc)
         ELSE FirstOccurrences(Tail(seq), Append(acc, Head(seq)))

\* The page a form is filed under: its page_number when that is a page of the
\* chunk, else the chunk's first page.
TargetPage(form, chunk) ==
    LET page_num == GetPageNumber(form, chunk[1].page_number)
    IN  IF \E i \in 1..Len(chunk) : chunk[i].page_number = page_num
        THEN page_num
        ELSE chunk[1].page_number

\* A form whose page is not a page of the chunk is filed under every page.
SelectFormsOnEveryPage(forms, chunk, page_number) ==
    SelectSeq(forms, LAMBDA f :
        \/ TargetPage(f, chunk) = page_number
        \/ ~\E i \in 1..Len(chunk) :
               chunk[i].page_number = GetPageNumber(f, chunk[1].page_number))

SelectForms(forms, chunk, page_number) ==
    SelectSeq(forms, LAMBDA f : TargetPage(f, chunk) = page_number)

\* forms_by_page.values() after the forms of the chunk were distributed
FormsByPage(chunk, form_type, chunk_forms) ==
    LET keys == FirstOccurrences(PageNumbers(chunk), <<>>)
    IN  [i \in 1..Len(keys) |->
            [page_number |-> keys[i],
             detected_type |-> form_type,
             extracted_forms |-> SelectForms(chunk_forms, chunk, keys[i]),
             error |-> ""]]

\* The pages of a form type without a prompt configuration left out silently
UnsupportedResultsDropped(pages, form_type) == <<>>

\* The page results of a form type without a prompt configuration
UnsupportedResults(pages, form_type) ==
    [i \in 1..Len(pages) |->
        [page_number |-> pages[i].page_number,
         detected_type |-> form_type,
         extracted_forms |-> <<>>,
         error |-> "Unsupported form type"]]

RECURSIVE Flatten(_)
Flatten(seqs) ==
    IF seqs = <<>> THEN <<>> ELSE Head(seqs) \o Flatten(Tail(seqs))

\* extracted_forms_list
ExtractedFormsList(page_results) ==
    Flatten([i \in 1..Len(page_results) |-> page_results[i].extracted_forms])

\* sum(1 for _ in range(0, len(request.pages), MAX_PAGES_PER_BATCH))
ApiCallsMade(n) == (n + MAX_PAGES_PER_BATCH - 1) \div MAX_PAGES_PER_BATCH

NoResponse ==
    [status |-> 0, success |-> FALSE, has_data |-> FALSE, page_results |-> <<>>,
     forms_in_message |-> 0, api_calls_made |-> 0]

\* The except branch of a handler: status 500, data None
ErrorResponse ==
    [status |-> 500, success |-> FALSE, has_data |-> FALSE, page_results |-> <<>>,
     forms_in_message |-> 0, api_calls_made |-> 0]

(***************************************************************************)
(* The parts at rest.                                                      *)
(***************************************************************************)
ApiIdle ==
    /\ endpoint = "none"
    /\ request = <<>>
    /\ pc = "idle"
    /\ pages_by_type = <<>>
    /\ type_idx = 0
    /\ chunk_idx = 0
    /\ attempt = 0
    /\ retry_delay = 0
    /\ last_error = NoError
    /\ trace = <<>>
    /\ contents = <<>>
    /\ chunks_sent = <<>>
    /\ all_page_results = <<>>
    /\ total_forms_extracted = 0
    /\ response = NoResponse
    /\ history = <<>>
    /\ save_calls = 0
    /\ model_responses = <<>>

(***************************************************************************)
(* MultiPageK3Processor (forms/form_k3/extractor.py).                      *)
(*                                                                         *)
(* A page's extraction result is a record                                  *)
(*    kind          "dict", "list" (a list whose first element is the      *)
(*                  data), "error" (a dict with an "error" key), "other"   *)
(*                  (neither a dict nor a non-empty list) or "raise"       *)
(*    md            the document metadata carried by the data              *)
(*    partner_name  "" when the data has none                              *)
(*    wrapped       the parts sit in data["partner_records"][0]            *)
(*    parts         part key -> list of items; an item is                  *)
(*                  [has_data, data], data a list of [code, value].        *)
(* Python values are written as their repr: "None", "0", "'5'".            *)
(***************************************************************************)
PartKeySeq == <<"part_i_other_international", "part_ii_foreign_tax_credit">>
PartKeys == {PartKeySeq[i] : i \in 1..Len(PartKeySeq)}

Codes == {"A", "B"}
Values == {"None", "'5'", "'9'"}

\* val is None or val == 0 or val == 0.00 or val == "" (False == 0 in Python)
IsEmptyValue(v) == v \in {"None", "0", "0.0", "''", "False"}

Entry(c, v) == [code |-> c, value |-> v]
Item(d) == [has_data |-> TRUE, data |-> d]
ItemWithoutData == [has_data |-> FALSE, data |-> <<>>]

Items ==
    {Item(<<Entry(c, v)>>) : c \in Codes, v \in Values}
    \cup {Item(<<Entry(c[1], v[1]), Entry(c[2], v[2])>>) :
             c \in {x \in Codes \X Codes : x[1] # x[2]}, v \in Values \X Values}
    \cup {ItemWithoutData}

EmptyParts == [k \in PartKeys |-> <<>>]

MdAbsent == [src |-> "absent", form_type |-> "", tax_year |-> "",
             partnership_name |-> "", partnership_ein |-> ""]
MdBlank == [src |-> "document_metadata", form_type |-> "", tax_year |-> "",
            partnership_name |-> "", partnership_ein |-> ""]
MdFull == [src |-> "document_metadata", form_type |-> "Schedule K-3 (Form 1065)",
           tax_year |-> "2023", partnership_name |-> "Acme LP",
           partnership_ein |-> "12-3456789"]
\* top-level partnership_name key, no form_type, tax_year or partnership_ein key
MdFlat == [src |-> "flat", form_type |-> "", tax_year |-> "",
           partnership_name |-> "Birch LLC", partnership_ein |-> ""]
NoMetadata == [src |-> "None", form_type |-> "", tax_year |-> "",
               partnership_name |-> "", partnership_ein |-> ""]

PageData == [kind |-> "dict", md |-> MdAbsent, partner_name |-> "",
             wrapped |-> FALSE, parts |-> EmptyParts]
Failure(kind) == [PageData EXCEPT !.kind = kind]

ExtractResults ==
    {[PageData EXCEPT !.parts[PartKeySeq[1]] = <<it>>] : it \in Items}
    \cup {[PageData EXCEPT !.parts[PartKeySeq[2]] = <<Item(<<Entry("A", v)>>)>>] :
             v \in {"None", "'9'"}}
    \cup {[PageData EXCEPT !.md = m, !.partner_name = n] :
             m \in {MdAbsent, MdBlank, MdFull, MdFlat}, n \in {"", "Ann"}}
    \cup {[PageData EXCEPT !.wrapped = TRUE, !.partner_name = "Ann",
                           !.parts[PartKeySeq[1]] = <<Item(<<Entry("A", "'5'")>>)>>],
          [PageData EXCEPT !.kind = "list",
                           !.parts[PartKeySeq[1]] = <<Item(<<Entry("A", "'9'")>>)>>]}
    \cup {Failure("error"), Failure("other"), Failure("raise")}

\* for start, end in ranges: pages.extend(range(start, end + 1))
detect_k3_pages(d) ==
    LET ranges == detect_k3_page_ranges(d, ScanDefault)
    IN  Flatten([i \in 1..Len(ranges) |->
                    [j \in 1..(ranges[i][2] - ranges[i][1] + 1) |-> ranges[i][1] + j - 1]])

\* if 1 <= page_num <= len(doc): images.append((page_num, img))
extract_k3_pages_as_images(d, page_numbers) ==
    SelectSeq(page_numbers, LAMBDA p : 1 <= p /\ p <= Len(d))

\* An entry of all_part_data[part_key] is the item object of a raw result:
\* [page |-> index in raw_results, item |-> index in that page's part list].
ItemAt(heap, part_key, ref) == heap[ref.page].raw.parts[part_key][ref.item]

MergedItems(heap, part_key, refs) ==
    [i \in 1..Len(refs) |-> ItemAt(heap, part_key, refs[i])]

\* existing_codes: every code of every data entry of the items merged so far
ExistingCodes(heap, part_key, refs) ==
    UNION {{ItemAt(heap, part_key, refs[i]).data[j].code :
                j \in 1..Len(ItemAt(heap, part_key, refs[i]).data)} :
           i \in 1..Len(refs)}

\* ed["value"] = val for every merged entry of that code whose value is empty
UpdateExisting(heap, part_key, refs, code, val) ==
    LET merged == {refs[i] : i \in 1..Len(refs)}
        NewEntry(e) == IF e.code = code /\ IsEmptyValue(e.value)
                       THEN [e EXCEPT !.value = val] ELSE e
        NewItem(p, i, it) ==
            IF [page |-> p, item |-> i] \in merged /\ it.has_data
            THEN [it EXCEPT !.data = [j \in 1..Len(it.data) |-> NewEntry(it.data[j])]]
            ELSE it
        NewList(p, items) == [i \in 1..Len(items) |-> NewItem(p, i, items[i])]
    IN  [p \in 1..Len(heap) |->
            [heap[p] EXCEPT !.raw.parts[part_key] = NewList(p, @)]]

\* One item of the page's part list.  The loop over item["data"] leaves at
\* its first entry on both branches, so only that entry is looked at.
MergeItem(st, part_key, page, i) ==
    LET item == st.heap[page].raw.parts[part_key][i]
        d == Head(item.data)
    IN  IF ~item.has_data \/ item.data = <<>> THEN st
        ELSE IF d.code \notin st.codes
        THEN [st EXCEPT !.refs = Append(@, [page |-> page, item |-> i]),
                        !.codes = @ \cup {d.code}]
        ELSE IF ~IsEmptyValue(d.value)
        THEN [st EXCEPT !.heap = UpdateExisting(@, part_key, st.refs, d.code, d.value)]
        ELSE st

RECURSIVE MergeItemsFrom(_, _, _, _)
MergeItemsFrom(st, part_key, page, i) ==
    IF i > Len(st.heap[page].raw.parts[part_key]) THEN st
    ELSE MergeItemsFrom(MergeItem(st, part_key, page, i), part_key, page, i + 1)

\* for part_key in all_part_data.keys(): merge the page's items of that part
RECURSIVE MergePartsFrom(_, _, _)
MergePartsFrom(mem, page, n) ==
    IF n > Len(PartKeySeq) THEN mem
    ELSE LET part_key == PartKeySeq[n]
             st == MergeItemsFrom([heap |-> mem.heap, refs |-> mem.apd[part_key],
                                   codes |-> ExistingCodes(mem.heap, part_key,
                                                           mem.apd[part_key])],
                                  part_key, page, 1)
         IN  MergePartsFrom([heap |-> st.heap,
                             apd |-> [mem.apd EXCEPT ![part_key] = st.refs]],
                            page, n + 1)

\* document_metadata of a page's data (first one found is kept)
MetadataOf(data) ==
    CASE data.md.src = "document_metadata" -> data.md
      [] data.md.src = "flat" ->
            [src |-> "built", form_type |-> "Schedule K-3 (Form 1065)",
             tax_year |-> "2024", partnership_name |-> data.md.partnership_name,
             partnership_ein |-> ""]
      [] OTHER -> NoMetadata

DefaultMetadata ==
    [src |-> "default", form_type |-> "Schedule K-3 (Form 1065)",
     tax_year |-> "2024", partnership_name |-> "", partnership_ein |-> ""]

PageReference(first_page, last_page) ==
    ToString(first_page) \o "-" \o ToString(last_page)

NoK3Result ==
    [error |-> "", document_metadata |-> NoMetadata, partner_records |-> <<>>,
     debug_raw_results |-> <<>>, pages_extracted |-> <<>>, k3_pages_found |-> <<>>,
     total_partners |-> 0]

K3Error(msg) == [NoK3Result EXCEPT !.error = msg]

(***************************************************************************)
(* JSON values as the transformers of app.py see them.  A value is a       *)
(* record [t, v, kids]: t is the Python type ("dict", "list", "str",       *)
(* "num", "bool", "null"), v the text of a scalar, kids the entries        *)
(* [k, val] of a dict or a list in order.  A dict key is the sequence of   *)
(* its pieces (words, single digits, punctuation; "partner" is cut into    *)
(* "pa", "rtn", "er" because "rtn" is itself a search pattern), so that    *)
(* Python's substring test on keys is a test for a contiguous run of       *)
(* pieces.                                                                 *)
(***************************************************************************)
JNull == [t |-> "null", v |-> "None", kids |-> <<>>]
JStr(text) == [t |-> "str", v |-> text, kids |-> <<>>]
JNum(text) == [t |-> "num", v |-> text, kids |-> <<>>]
JBool(b) == [t |-> "bool", v |-> IF b THEN "True" ELSE "False", kids |-> <<>>]
JList(items) ==
    [t |-> "list", v |-> "",
     kids |-> [i \in 1..Len(items) |-> [k |-> <<>>, val |-> items[i]]]]
JDict(entries) == [t |-> "dict", v |-> "", kids |-> entries]
KV(key, val) == [k |-> key, val |-> val]

\* d.get(key): the value of the last entry with that key, None without one
Get(d, key) ==
    LET hits == {i \in 1..Len(d.kids) : d.kids[i].k = key}
    IN  IF d.t # "dict" \/ hits = {} THEN JNull
        ELSE d.kids[CHOOSE i \in hits : \A j \in hits : j <= i].val
HasKey(d, key) == d.t = "dict" /\ \E i \in 1..Len(d.kids) : d.kids[i].k = key

\* bool(x)
Truthy(x) ==
    CASE x.t = "null" -> FALSE
      [] x.t = "bool" -> x.v = "True"
      [] x.t = "str" -> x.v # ""
      [] x.t = "num" -> x.v \notin {"0", "0.0"}
      [] OTHER -> x.kids # <<>>

\* str(i) of a list index, as key pieces
RECURSIVE Digits(_)
Digits(i) ==
    IF i < 10 THEN <<ToString(i)>> ELSE Digits(i \div 10) \o <<ToString(i % 10)>>

\* dict(items): a repeated key keeps its first position and its last value
RECURSIVE DictOf(_)
DictOf(items) ==
    IF \A i, j \in 1..Len(items) : i < j => items[i].k # items[j].k THEN items
    ELSE LET last == items[Len(items)]
             front == DictOf(SubSeq(items, 1, Len(items) - 1))
         IN  IF \E i \in 1..Len(front) : front[i].k = last.k
             THEN [i \in 1..Len(front) |->
                      IF front[i].k = last.k THEN last ELSE front[i]]
             ELSE Append(front, last)

\* flatten_dict(d, parent_key, sep='_'), as the list of its entries
RECURSIVE flatten_dict(_, _)
flatten_dict(d, parent_key) ==
    IF d.t # "dict" THEN <<>>
    ELSE DictOf(Flatten(
           [n \in 1..Len(d.kids) |->
              LET val == d.kids[n].val
                  new_key == IF parent_key # <<>>
                             THEN parent_key \o <<"_">> \o d.kids[n].k
                             ELSE d.kids[n].k
              IN  CASE val.t = "dict" -> flatten_dict(val, new_key)
                    [] val.t = "list" ->
                         Flatten([i \in 1..Len(val.kids) |->
                            LET item == val.kids[i].val
                                item_key == new_key \o <<"_">> \o Digits(i - 1)
                            IN  IF item.t = "dict" THEN flatten_dict(item, item_key)
                                ELSE <<KV(item_key, item)>>])
                    [] OTHER -> <<KV(new_key, val)>>]))

\* str.lower() of a key piece
LowerPiece(piece) ==
    CASE piece = "Wages" -> "wages"
      [] piece = "Box" -> "box"
      [] OTHER -> piece
Lower(key) == [i \in 1..Len(key) |-> LowerPiece(key[i])]

\* pattern in key
KeyIn(pattern, key) ==
    \E i \in 0..(Len(key) - Len(pattern)) :
        \A j \in 1..Len(pattern) : key[i + j] = pattern[j]

\* v is not None and v != "" and v != "N/A"
Filled(val) == val.t # "null" /\ ~(val.t = "str" /\ val.v \in {"", "N/A"})

\* find_value(keys, default): the first key, in the order of keys, that some
\* filled entry of flat contains; of it the first such entry
find_value(flat, keys, default) ==
    LET hits(key) == SelectSeq(flat, LAMBDA e :
                        KeyIn(Lower(key), Lower(e.k)) /\ Filled(e.val))
        found == {n \in 1..Len(keys) : hits(keys[n]) # <<>>}
    IN  IF found = {} THEN default
        ELSE Head(hits(keys[CHOOSE n \in found : \A m \in found : n <= m])).val

\* float(x) of a number (bool is an int in Python)
FloatOfNum(x) ==
    CASE x.t = "bool" -> JNum(IF x.v = "True" THEN "1.0" ELSE "0.0")
      [] x.v = "7" -> JNum("7.0")
      [] x.v = "100" -> JNum("100.0")
      [] x.v = "2023" -> JNum("2023.0")
      [] OTHER -> x

\* float(val.replace("$", "").replace(",", "").strip()); fails gives fallback
FloatOfStr(text, fallback) ==
    CASE text = "$1,000.50" -> JNum("1000.5")
      [] text = "100" -> JNum("100.0")
      [] text = "7.0" -> JNum("7.0")
      [] OTHER -> fallback

\* str(x)
StrOf(x) ==
    CASE x.t \in {"str", "num", "bool", "null"} -> JStr(x.v)
      [] OTHER -> JStr("<repr>")

\* find_number of transform_to_w2_structure: the default goes through
\* find_value
find_number_w2(flat, keys) ==
    LET val == find_value(flat, keys, JNum("0.0"))
    IN  CASE val.t = "null" -> JNum("0.0")
          [] val.t \in {"num", "bool"} -> FloatOfNum(val)
          [] val.t = "str" -> FloatOfStr(val.v, JNum("0.0"))
          [] OTHER -> JNum("0.0")

\* val.lower() in ["true", "yes", "1", "x", "checked"]
SaysYes(text) == text \in {"true", "True", "yes", "Yes", "1", "x", "X", "checked"}

find_bool(flat, keys) ==
    LET val == find_value(flat, keys, JBool(FALSE))
    IN  CASE val.t = "bool" -> val
          [] val.t = "str" -> JBool(SaysYes(val.v))
          [] OTHER -> JBool(FALSE)

\* name.strip() of a string, str(name) if name else "" of anything else
CombinedPart(x) ==
    IF x.t = "str" THEN x.v ELSE IF Truthy(x) THEN StrOf(x).v ELSE ""

find_combined_value(flat, name_keys, address_keys, default, separator) ==
    LET name == CombinedPart(find_value(flat, name_keys, JStr("")))
        address == CombinedPart(find_value(flat, address_keys, JStr("")))
    IN  IF name # "" /\ address # "" THEN JStr(name \o separator \o address)
        ELSE IF name # "" THEN JStr(name)
        ELSE IF address # "" THEN JStr(address)
        ELSE default

(***************************************************************************)
(* The helpers and the result literals of transform_to_w2_structure,       *)
(* transform_to_1099int_structure and transform_to_k1_structure.           *)
(***************************************************************************)
\* a or b
Or(a, b) == IF Truthy(a) THEN a ELSE b

\* d.get(key, default)
GetOr(d, key, default) == IF HasKey(d, key) THEN Get(d, key) ELSE default

\* val.replace("\n", ", ").replace("\r", "").strip()
CleanText(text) ==
    CASE text = "Bank\nNY" -> "Bank, NY"
      [] text = " CA " -> "CA"
      [] OTHER -> text

\* text.rstrip("*")
RStripStar(text) ==
    CASE text = "Bank*" -> "Bank"
      [] OTHER -> text

\* float(val.replace("$", "").replace(",", "").replace("(", "-").replace(")", "").strip())
FloatOfStrK1(text, fallback) ==
    CASE text = "(7.0)" -> JNum("-7.0")
      [] OTHER -> FloatOfStr(text, fallback)

\* get_plane_value(plane, code): the value of the first data entry of the
\* plane that carries the code, None without one
get_plane_value(plane, code) ==
    LET entries == IF plane.t # "list" THEN <<>>
                   ELSE Flatten([i \in 1..Len(plane.kids) |->
                          LET data_list == GetOr(plane.kids[i].val, <<"data">>, JList(<<>>))
                          IN  [j \in 1..Len(data_list.kids) |-> data_list.kids[j].val]])
        hits == {n \in 1..Len(entries) : Get(entries[n], <<"code">>) = JStr(code)}
    IN  IF hits = {} THEN JNull
        ELSE Get(entries[CHOOSE n \in hits : \A m \in hits : n <= m], <<"value">>)

\* clean_string of the 1099-INT pass-through path
clean_string_1099(val) ==
    CASE val.t = "null" -> JStr("")
      [] val.t = "str" -> JStr(RStripStar(CleanText(val.v)))
      [] OTHER -> StrOf(val)

\* clean_number of the 1099-INT pass-through path: None stays None
clean_number_1099(val, default) ==
    CASE val.t = "null" -> JNull
      [] val.t \in {"num", "bool"} -> FloatOfNum(val)
      [] val.t = "str" -> FloatOfStr(val.v, default)
      [] OTHER -> default

\* clean_str of the 1099-INT fallback path
clean_str_1099(val) == clean_string_1099(val)

\* find_number of the 1099-INT fallback path
find_number_1099(flat, keys, default) ==
    LET val == find_value(flat, keys, JNull)
        fallback == IF default.t # "null" THEN default ELSE JNum("0.0")
    IN  CASE val.t = "null" -> default
          [] val.t \in {"num", "bool"} -> FloatOfNum(val)
          [] val.t = "str" -> FloatOfStr(val.v, fallback)
          [] OTHER -> fallback

clean_string_k1(val) ==
    CASE val.t = "null" -> JStr("")
      [] val.t = "str" -> JStr(CleanText(val.v))
      [] OTHER -> StrOf(val)

clean_number_k1(val, default) ==
    CASE val.t = "null" -> default
      [] val.t \in {"num", "bool"} -> FloatOfNum(val)
      [] val.t = "str" -> FloatOfStrK1(val.v, default)
      [] OTHER -> default

clean_bool_k1(val) ==
    CASE val.t = "bool" -> val
      [] val.t = "str" -> JBool(SaysYes(val.v))
      [] OTHER -> JBool(FALSE)

clean_array_k1(val) == IF val.t = "list" THEN val ELSE JList(<<>>)

\* find_number of the K-1 fallback path
find_number_k1(flat, keys, default) ==
    LET val == find_value(flat, keys, JNull)
    IN  CASE val.t = "null" -> default
          [] val.t \in {"num", "bool"} -> FloatOfNum(val)
          [] val.t = "str" -> FloatOfStrK1(val.v, default)
          [] OTHER -> default

W2Result(flat) ==
    JList(<<
      JDict(<<
        KV(<<"forms">>, JList(<<
          JDict(<<
            KV(<<"form", "_", "header">>, JDict(<<
              KV(<<"form", "_", "number">>, JStr("W-2")),
              KV(<<"year">>, StrOf(find_value(flat, <<<<"year">>, <<"tax", "_", "year">>, <<"form", "_", "year">>>>, JStr("2024")))),
              KV(<<"type">>, JStr("Wage and Tax Statement")),
              KV(<<"text", "_", "array">>, JList(<<
                JStr("Employee Reference"),
                find_value(flat, <<<<"copy">>, <<"copy", "_", "type">>>>, JStr("Copy C for employee's records")),
                JStr("OMB No. 1545-0008")>>))>>)),
            KV(<<"boxes">>, JList(<<
              JDict(<<
                KV(<<"identification", "_", "plane">>, JList(<<
                  JDict(<<KV(<<"data">>, JList(<<JDict(<<KV(<<"code">>, JStr("a")), KV(<<"label">>, JStr("Employee's SSA number")), KV(<<"value">>, find_value(flat, <<<<"ssn">>, <<"ssa">>, <<"employee", "_", "ssn">>, <<"social", "_", "security">>, <<"box", "_", "a">>>>, JStr("")))>>)>>))>>),
                  JDict(<<KV(<<"data">>, JList(<<JDict(<<KV(<<"code">>, JStr("b")), KV(<<"label">>, JStr("Employer's FED ID number")), KV(<<"value">>, find_value(flat, <<<<"ein">>, <<"fed", "_", "id">>, <<"employer", "_", "ein">>, <<"employer", "_", "fed">>, <<"box", "_", "b">>>>, JStr("")))>>)>>))>>),
                  JDict(<<KV(<<"data">>, JList(<<JDict(<<KV(<<"code">>, JStr("c")), KV(<<"label">>, JStr("Employer's name and address")), KV(<<"value">>, find_combined_value(flat, <<<<"employer", "_", "name">>>>, <<<<"employer", "_", "address">>, <<"employer", "_", "street">>, <<"employer", "_", "city">>>>, JStr(""), "\n"))>>)>>))>>),
                  JDict(<<KV(<<"data">>, JList(<<JDict(<<KV(<<"code">>, JStr("d")), KV(<<"label">>, JStr("Control number")), KV(<<"value">>, find_value(flat, <<<<"control">>, <<"control", "_", "number">>, <<"box", "_", "d">>>>, JStr("")))>>)>>))>>),
                  JDict(<<KV(<<"data">>, JList(<<JDict(<<KV(<<"code">>, JStr("dept")), KV(<<"label">>, JStr("Department")), KV(<<"value">>, find_value(flat, <<<<"dept">>, <<"department">>, <<"dept", "_", "code">>>>, JStr("")))>>)>>))>>),
                  JDict(<<KV(<<"data">>, JList(<<JDict(<<KV(<<"code">>, JStr("e/f")), KV(<<"label">>, JStr("Employee's name and address")), KV(<<"value">>, find_combined_value(flat, <<<<"employee", "_", "name">>>>, <<<<"employee", "_", "address">>, <<"employee", "_", "street">>, <<"employee", "_", "city">>>>, JStr(""), "\n"))>>)>>))>>)>>))>>),
              JDict(<<
                KV(<<"federal", "_", "tax", "_", "plane">>, JList(<<
                  JDict(<<KV(<<"data">>, JList(<<JDict(<<KV(<<"code">>, JStr("1")), KV(<<"label">>, JStr("Wages, tips, other comp.")), KV(<<"value">>, find_number_w2(flat, <<<<"box", "_", "1">>, <<"box", "1">>, <<"wages">>, <<"wages", "_", "tips">>>>))>>)>>))>>),
                  JDict(<<KV(<<"data">>, JList(<<JDict(<<KV(<<"code">>, JStr("2")), KV(<<"label">>, JStr("Federal income tax withheld")), KV(<<"value">>, find_number_w2(flat, <<<<"box", "_", "2">>, <<"box", "2">>, <<"federal", "_", "income", "_", "tax">>, <<"federal", "_", "tax", "_", "withheld">>>>))>>)>>))>>),
                  JDict(<<KV(<<"data">>, JList(<<JDict(<<KV(<<"code">>, JStr("3")), KV(<<"label">>, JStr("Social security wages")), KV(<<"value">>, find_number_w2(flat, <<<<"box", "_", "3">>, <<"box", "3">>, <<"social", "_", "security", "_", "wages">>>>))>>)>>))>>),
                  JDict(<<KV(<<"data">>, JList(<<JDict(<<KV(<<"code">>, JStr("4")), KV(<<"label">>, JStr("Social security tax withheld")), KV(<<"value">>, find_number_w2(flat, <<<<"box", "_", "4">>, <<"box", "4">>, <<"social", "_", "security", "_", "tax">>>>))>>)>>))>>),
                  JDict(<<KV(<<"data">>, JList(<<JDict(<<KV(<<"code">>, JStr("5")), KV(<<"label">>, JStr("Medicare wages and tips")), KV(<<"value">>, find_number_w2(flat, <<<<"box", "_", "5">>, <<"box", "5">>, <<"medicare", "_", "wages">>>>))>>)>>))>>),
                  JDict(<<KV(<<"data">>, JList(<<JDict(<<KV(<<"code">>, JStr("6")), KV(<<"label">>, JStr("Medicare tax withheld")), KV(<<"value">>, find_number_w2(flat, <<<<"box", "_", "6">>, <<"box", "6">>, <<"medicare", "_", "tax">>>>))>>)>>))>>),
                  JDict(<<KV(<<"data">>, JList(<<JDict(<<KV(<<"code">>, JStr("7")), KV(<<"label">>, JStr("Social security tips")), KV(<<"value">>, find_number_w2(flat, <<<<"box", "_", "7">>, <<"box", "7">>, <<"social", "_", "security", "_", "tips">>>>))>>)>>))>>),
                  JDict(<<KV(<<"data">>, JList(<<JDict(<<KV(<<"code">>, JStr("8")), KV(<<"label">>, JStr("Allocated tips")), KV(<<"value">>, find_number_w2(flat, <<<<"box", "_", "8">>, <<"box", "8">>, <<"allocated", "_", "tips">>>>))>>)>>))>>),
                  JDict(<<KV(<<"data">>, JList(<<JDict(<<KV(<<"code">>, JStr("9")), KV(<<"label">>, JStr("Verification code")), KV(<<"value">>, find_value(flat, <<<<"box", "_", "9">>, <<"box", "9">>, <<"verification", "_", "code">>, <<"verification">>>>, JStr("")))>>)>>))>>),
                  JDict(<<KV(<<"data">>, JList(<<JDict(<<KV(<<"code">>, JStr("10")), KV(<<"label">>, JStr("Dependent care benefits")), KV(<<"value">>, find_number_w2(flat, <<<<"box", "_", "1", "0">>, <<"box", "1", "0">>, <<"dependent", "_", "care">>>>))>>)>>))>>),
                  JDict(<<KV(<<"data">>, JList(<<JDict(<<KV(<<"code">>, JStr("11")), KV(<<"label">>, JStr("Nonqualified plans")), KV(<<"value">>, find_number_w2(flat, <<<<"box", "_", "1", "1">>, <<"box", "1", "1">>, <<"nonqualified">>>>))>>)>>))>>)>>))>>),
              JDict(<<
                KV(<<"boxes">>, JList(<<
                  JDict(<<
                    KV(<<"supplemental", "_", "plane">>, JList(<<
                      JDict(<<KV(<<"data">>, JList(<<JDict(<<KV(<<"code">>, JStr("12a")), KV(<<"label">>, find_value(flat, <<<<"box", "_", "1", "2", "a", "_", "code">>, <<"1", "2", "a", "_", "code">>>>, JStr(""))), KV(<<"value">>, find_number_w2(flat, <<<<"box", "_", "1", "2", "a", "_", "amount">>, <<"1", "2", "a", "_", "amount">>, <<"box", "_", "1", "2", "a">>>>))>>)>>))>>),
                      JDict(<<KV(<<"data">>, JList(<<JDict(<<KV(<<"code">>, JStr("12b")), KV(<<"label">>, find_value(flat, <<<<"box", "_", "1", "2", "b", "_", "code">>, <<"1", "2", "b", "_", "code">>>>, JStr(""))), KV(<<"value">>, find_number_w2(flat, <<<<"box", "_", "1", "2", "b", "_", "amount">>, <<"1", "2", "b", "_", "amount">>, <<"box", "_", "1", "2", "b">>>>))>>)>>))>>),
                      JDict(<<KV(<<"data">>, JList(<<JDict(<<KV(<<"code">>, JStr("12c")), KV(<<"label">>, find_value(flat, <<<<"box", "_", "1", "2", "c", "_", "code">>, <<"1", "2", "c", "_", "code">>>>, JStr(""))), KV(<<"value">>, find_number_w2(flat, <<<<"box", "_", "1", "2", "c", "_", "amount">>, <<"1", "2", "c", "_", "amount">>, <<"box", "_", "1", "2", "c">>>>))>>)>>))>>),
                      JDict(<<KV(<<"data">>, JList(<<JDict(<<KV(<<"code">>, JStr("12d")), KV(<<"label">>, find_value(flat, <<<<"box", "_", "1", "2", "d", "_", "code">>, <<"1", "2", "d", "_", "code">>>>, JStr(""))), KV(<<"value">>, find_number_w2(flat, <<<<"box", "_", "1", "2", "d", "_", "amount">>, <<"1", "2", "d", "_", "amount">>, <<"box", "_", "1", "2", "d">>>>))>>)>>))>>),
                      JDict(<<KV(<<"data">>, JList(<<JDict(<<KV(<<"code">>, JStr("13")), KV(<<"label">>, JStr("Statutory employee")), KV(<<"value">>, find_bool(flat, <<<<"box", "_", "1", "3", "_", "statutory">>, <<"box", "_", "1", "3", "_", "statutory", "_", "employee">>, <<"statutory", "_", "employee">>, <<"statutory">>>>))>>)>>))>>),
                      JDict(<<KV(<<"data">>, JList(<<JDict(<<KV(<<"code">>, JStr("13b")), KV(<<"label">>, JStr("Retirement plan")), KV(<<"value">>, find_bool(flat, <<<<"box", "_", "1", "3", "_", "retirement">>, <<"box", "_", "1", "3", "_", "retirement", "_", "plan">>, <<"retirement", "_", "plan">>, <<"retirement">>>>))>>)>>))>>),
                      JDict(<<KV(<<"data">>, JList(<<JDict(<<KV(<<"code">>, JStr("13c")), KV(<<"label">>, JStr("Third-party sick pay")), KV(<<"value">>, find_bool(flat, <<<<"box", "_", "1", "3", "_", "sick", "_", "pay">>, <<"box", "_", "1", "3", "_", "third", "_", "party", "_", "sick", "_", "pay">>, <<"third", "_", "party", "_", "sick", "_", "pay">>, <<"sick", "_", "pay">>>>))>>)>>))>>),
                      JDict(<<KV(<<"data">>, JList(<<JDict(<<KV(<<"code">>, JStr("14")), KV(<<"label">>, JStr("Other")), KV(<<"value">>, find_value(flat, <<<<"box", "_", "1", "4">>, <<"box", "_", "1", "4", "_", "other">>, <<"other">>>>, JNull))>>)>>))>>)>>))>>)>>))>>),
              JDict(<<
                KV(<<"state", "_", "local", "_", "plane">>, JList(<<
                  JDict(<<KV(<<"data">>, JList(<<JDict(<<KV(<<"code">>, JStr("15")), KV(<<"label">>, JStr("State / Employer ID")), KV(<<"value">>, find_combined_value(flat, <<<<"box", "_", "1", "5", "_", "state">>, <<"state">>>>, <<<<"box", "_", "1", "5", "_", "state", "_", "id">>, <<"state", "_", "id">>, <<"employer", "_", "state", "_", "id">>>>, JNull, "\n"))>>)>>))>>),
                  JDict(<<KV(<<"data">>, JList(<<JDict(<<KV(<<"code">>, JStr("16")), KV(<<"label">>, JStr("State wages, tips, etc.")), KV(<<"value">>, find_number_w2(flat, <<<<"box", "_", "1", "6">>, <<"state", "_", "wages">>>>))>>)>>))>>),
                  JDict(<<KV(<<"data">>, JList(<<JDict(<<KV(<<"code">>, JStr("17")), KV(<<"label">>, JStr("State income tax")), KV(<<"value">>, find_number_w2(flat, <<<<"box", "_", "1", "7">>, <<"state", "_", "income", "_", "tax">>, <<"state", "_", "tax">>>>))>>)>>))>>),
                  JDict(<<KV(<<"data">>, JList(<<JDict(<<KV(<<"code">>, JStr("18")), KV(<<"label">>, JStr("Local wages, tips, etc.")), KV(<<"value">>, find_number_w2(flat, <<<<"box", "_", "1", "8">>, <<"local", "_", "wages">>>>))>>)>>))>>),
                  JDict(<<KV(<<"data">>, JList(<<JDict(<<KV(<<"code">>, JStr("19")), KV(<<"label">>, JStr("Local income tax")), KV(<<"value">>, find_number_w2(flat, <<<<"box", "_", "1", "9">>, <<"local", "_", "income", "_", "tax">>, <<"local", "_", "tax">>>>))>>)>>))>>),
                  JDict(<<KV(<<"data">>, JList(<<JDict(<<KV(<<"code">>, JStr("20")), KV(<<"label">>, JStr("Locality name")), KV(<<"value">>, find_value(flat, <<<<"box", "_", "2", "0">>, <<"locality">>, <<"locality", "_", "name">>>>, JNull))>>)>>))>>),
                  JDict(<<KV(<<"data">>, JList(<<JDict(<<KV(<<"code">>, JStr("15b")), KV(<<"label">>, JStr("State / Employer ID (2)")), KV(<<"value">>, find_combined_value(flat, <<<<"box", "_", "1", "5", "b", "_", "state">>>>, <<<<"box", "_", "1", "5", "b", "_", "state", "_", "id">>>>, JNull, "\n"))>>)>>))>>),
                  JDict(<<KV(<<"data">>, JList(<<JDict(<<KV(<<"code">>, JStr("16b")), KV(<<"label">>, JStr("State wages (2)")), KV(<<"value">>, find_number_w2(flat, <<<<"box", "_", "1", "6", "b">>>>))>>)>>))>>),
                  JDict(<<KV(<<"data">>, JList(<<JDict(<<KV(<<"code">>, JStr("17b")), KV(<<"label">>, JStr("State income tax (2)")), KV(<<"value">>, find_number_w2(flat, <<<<"box", "_", "1", "7", "b">>>>))>>)>>))>>),
                  JDict(<<KV(<<"data">>, JList(<<JDict(<<KV(<<"code">>, JStr("18b")), KV(<<"label">>, JStr("Local wages (2)")), KV(<<"value">>, find_number_w2(flat, <<<<"box", "_", "1", "8", "b">>>>))>>)>>))>>),
                  JDict(<<KV(<<"data">>, JList(<<JDict(<<KV(<<"code">>, JStr("19b")), KV(<<"label">>, JStr("Local income tax (2)")), KV(<<"value">>, find_number_w2(flat, <<<<"box", "_", "1", "9", "b">>>>))>>)>>))>>),
                  JDict(<<KV(<<"data">>, JList(<<JDict(<<KV(<<"code">>, JStr("20b")), KV(<<"label">>, JStr("Locality name (2)")), KV(<<"value">>, find_value(flat, <<<<"box", "_", "2", "0", "b">>>>, JNull))>>)>>))>>)>>))>>),
              JDict(<<
                KV(<<"additional", "_", "data", "_", "plane">>, JList(<<
                  JDict(<<KV(<<"data">>, JList(<<JDict(<<KV(<<"code">>, JStr("employer_use")), KV(<<"label">>, JStr("Employer Use Only")), KV(<<"value">>, find_value(flat, <<<<"employer", "_", "use", "_", "only">>, <<"employer", "_", "use">>, <<"for", "_", "employer", "_", "use">>>>, JStr("")))>>)>>))>>),
                  JDict(<<KV(<<"data">>, JList(<<JDict(<<KV(<<"code">>, JStr("other")), KV(<<"label">>, JStr("Other Data")), KV(<<"value">>, find_value(flat, <<<<"other", "_", "data">>, <<"other">>, <<"additional", "_", "info">>>>, JStr("")))>>)>>))>>)>>))>>)>>))>>)>>))>>)>>)

processed_form_1099(form, id_plane, fin_plane, state_plane) ==
    LET payer == Or(get_plane_value(id_plane, "Payer"), JStr(""))
        payer_tin == Or(get_plane_value(id_plane, "Payer TIN"), JStr(""))
        payer_telephone == Or(get_plane_value(id_plane, "Payer Telephone"), JStr(""))
        recipient_tin == Or(get_plane_value(id_plane, "Recipient TIN"), JStr(""))
        recipient_name == Or(get_plane_value(id_plane, "Recipient Name"), JStr(""))
        account_no == Or(get_plane_value(id_plane, "Account No"), JStr(""))
        payer_rtn == Or(get_plane_value(id_plane, "Payer RTN"), JStr(""))
        fatca == get_plane_value(id_plane, "FATCA")
        box_1 == get_plane_value(fin_plane, "1")
        box_2 == get_plane_value(fin_plane, "2")
        box_3 == get_plane_value(fin_plane, "3")
        box_4 == get_plane_value(fin_plane, "4")
        box_5 == get_plane_value(fin_plane, "5")
        box_6 == get_plane_value(fin_plane, "6")
        box_7 == get_plane_value(fin_plane, "7")
        box_8 == get_plane_value(fin_plane, "8")
        box_9 == get_plane_value(fin_plane, "9")
        box_10 == get_plane_value(fin_plane, "10")
        box_11 == get_plane_value(fin_plane, "11")
        box_12 == get_plane_value(fin_plane, "12")
        box_13 == get_plane_value(fin_plane, "13")
        box_14 == get_plane_value(fin_plane, "14")
        box_15 == (IF Truthy(state_plane) THEN get_plane_value(state_plane, "15") ELSE JNull)
        box_16 == (IF Truthy(state_plane) THEN get_plane_value(state_plane, "16") ELSE JNull)
        box_17 == (IF Truthy(state_plane) THEN get_plane_value(state_plane, "17") ELSE JNum("0.0"))
        year == GetOr(GetOr(form, <<"form", "_", "header">>, JDict(<<>>)), <<"year">>, JStr("2024"))
    IN  JDict(<<
          KV(<<"form", "_", "header">>, JDict(<<
            KV(<<"form", "_", "number">>, JStr("1099-INT")),
            KV(<<"year">>, StrOf(year)),
            KV(<<"type">>, JStr("Interest Income")),
            KV(<<"text", "_", "array">>, JList(<<
              JStr("Copy B"),
              JStr("For Recipient"),
              JStr("OMB No. 1545-0112"),
              JStr("Department of the Treasury - Internal Revenue Service")>>))>>)),
          KV(<<"boxes">>, JList(<<
            JDict(<<
              KV(<<"identification", "_", "plane">>, JList(<<
                JDict(<<KV(<<"data">>, JList(<<JDict(<<KV(<<"code">>, JStr("Payer")), KV(<<"label">>, JStr("Payer's name, address and telephone")), KV(<<"value">>, clean_string_1099(payer))>>)>>))>>),
                JDict(<<KV(<<"data">>, JList(<<JDict(<<KV(<<"code">>, JStr("Payer TIN")), KV(<<"label">>, JStr("Payer's TIN")), KV(<<"value">>, clean_string_1099(payer_tin))>>)>>))>>),
                JDict(<<KV(<<"data">>, JList(<<JDict(<<KV(<<"code">>, JStr("Payer Telephone")), KV(<<"label">>, JStr("Payer's telephone number")), KV(<<"value">>, clean_string_1099(payer_telephone))>>)>>))>>),
                JDict(<<KV(<<"data">>, JList(<<JDict(<<KV(<<"code">>, JStr("Recipient TIN")), KV(<<"label">>, JStr("Recipient's TIN")), KV(<<"value">>, clean_string_1099(recipient_tin))>>)>>))>>),
                JDict(<<KV(<<"data">>, JList(<<JDict(<<KV(<<"code">>, JStr("Recipient Name")), KV(<<"label">>, JStr("Recipient's name and address")), KV(<<"value">>, clean_string_1099(recipient_name))>>)>>))>>),
                JDict(<<KV(<<"data">>, JList(<<JDict(<<KV(<<"code">>, JStr("Account No")), KV(<<"label">>, JStr("Account number")), KV(<<"value">>, clean_string_1099(account_no))>>)>>))>>),
                JDict(<<KV(<<"data">>, JList(<<JDict(<<KV(<<"code">>, JStr("Payer RTN")), KV(<<"label">>, JStr("Payer's RTN")), KV(<<"value">>, clean_string_1099(payer_rtn))>>)>>))>>),
                JDict(<<KV(<<"data">>, JList(<<JDict(<<KV(<<"code">>, JStr("FATCA")), KV(<<"label">>, JStr("FATCA filing requirement")), KV(<<"value">>, (IF fatca.t = "bool" THEN fatca ELSE JBool(FALSE)))>>)>>))>>)>>))>>),
            JDict(<<
              KV(<<"financial", "_", "plane">>, JList(<<
                JDict(<<KV(<<"data">>, JList(<<JDict(<<KV(<<"code">>, JStr("1")), KV(<<"label">>, JStr("Interest income")), KV(<<"value">>, (IF box_1.t # "null" THEN clean_number_1099(box_1, JNum("0.0")) ELSE JNum("0.0")))>>)>>))>>),
                JDict(<<KV(<<"data">>, JList(<<JDict(<<KV(<<"code">>, JStr("2")), KV(<<"label">>, JStr("Early withdrawal penalty")), KV(<<"value">>, (IF box_2.t # "null" THEN clean_number_1099(box_2, JNum("0.0")) ELSE JNum("0.0")))>>)>>))>>),
                JDict(<<KV(<<"data">>, JList(<<JDict(<<KV(<<"code">>, JStr("3")), KV(<<"label">>, JStr("Interest on U.S. Savings Bonds and Treasury obligations")), KV(<<"value">>, (IF box_3.t # "null" THEN clean_number_1099(box_3, JNum("0.0")) ELSE JNum("0.0")))>>)>>))>>),
                JDict(<<KV(<<"data">>, JList(<<JDict(<<KV(<<"code">>, JStr("4")), KV(<<"label">>, JStr("Federal income tax withheld")), KV(<<"value">>, (IF box_4.t # "null" THEN clean_number_1099(box_4, JNum("0.0")) ELSE JNum("0.0")))>>)>>))>>),
                JDict(<<KV(<<"data">>, JList(<<JDict(<<KV(<<"code">>, JStr("5")), KV(<<"label">>, JStr("Investment expenses")), KV(<<"value">>, (IF box_5.t # "null" THEN clean_number_1099(box_5, JNum("0.0")) ELSE JNum("0.0")))>>)>>))>>),
                JDict(<<KV(<<"data">>, JList(<<JDict(<<KV(<<"code">>, JStr("6")), KV(<<"label">>, JStr("Foreign tax paid")), KV(<<"value">>, clean_number_1099(box_6, JNull))>>)>>))>>),
                JDict(<<KV(<<"data">>, JList(<<JDict(<<KV(<<"code">>, JStr("7")), KV(<<"label">>, JStr("Foreign country or U.S. possession")), KV(<<"value">>, (IF Truthy(box_7) THEN clean_string_1099(box_7) ELSE JNull))>>)>>))>>),
                JDict(<<KV(<<"data">>, JList(<<JDict(<<KV(<<"code">>, JStr("8")), KV(<<"label">>, JStr("Tax-exempt interest")), KV(<<"value">>, clean_number_1099(box_8, JNull))>>)>>))>>),
                JDict(<<KV(<<"data">>, JList(<<JDict(<<KV(<<"code">>, JStr("9")), KV(<<"label">>, JStr("Specified private activity bond interest")), KV(<<"value">>, clean_number_1099(box_9, JNull))>>)>>))>>),
                JDict(<<KV(<<"data">>, JList(<<JDict(<<KV(<<"code">>, JStr("10")), KV(<<"label">>, JStr("Market discount")), KV(<<"value">>, clean_number_1099(box_10, JNull))>>)>>))>>),
                JDict(<<KV(<<"data">>, JList(<<JDict(<<KV(<<"code">>, JStr("11")), KV(<<"label">>, JStr("Bond premium")), KV(<<"value">>, clean_number_1099(box_11, JNull))>>)>>))>>),
                JDict(<<KV(<<"data">>, JList(<<JDict(<<KV(<<"code">>, JStr("12")), KV(<<"label">>, JStr("Bond premium on Treasury obligations")), KV(<<"value">>, clean_number_1099(box_12, JNull))>>)>>))>>),
                JDict(<<KV(<<"data">>, JList(<<JDict(<<KV(<<"code">>, JStr("13")), KV(<<"label">>, JStr("Bond premium on tax-exempt bond")), KV(<<"value">>, clean_number_1099(box_13, JNull))>>)>>))>>),
                JDict(<<KV(<<"data">>, JList(<<JDict(<<KV(<<"code">>, JStr("14")), KV(<<"label">>, JStr("Tax-exempt and tax credit bond CUSIP no.")), KV(<<"value">>, (IF Truthy(box_14) THEN clean_string_1099(box_14) ELSE JNull))>>)>>))>>)>>))>>),
            JDict(<<
              KV(<<"state", "_", "local", "_", "plane">>, JList(<<
                JDict(<<KV(<<"data">>, JList(<<JDict(<<KV(<<"code">>, JStr("15")), KV(<<"label">>, JStr("State")), KV(<<"value">>, (IF (Truthy(box_15) /\ box_15 # JStr("15")) THEN clean_string_1099(box_15) ELSE JNull))>>)>>))>>),
                JDict(<<KV(<<"data">>, JList(<<JDict(<<KV(<<"code">>, JStr("16")), KV(<<"label">>, JStr("State identification no.")), KV(<<"value">>, (IF Truthy(box_16) THEN clean_string_1099(box_16) ELSE JNull))>>)>>))>>),
                JDict(<<KV(<<"data">>, JList(<<JDict(<<KV(<<"code">>, JStr("17")), KV(<<"label">>, JStr("State tax withheld")), KV(<<"value">>, (IF box_17.t # "null" THEN clean_number_1099(box_17, JNum("0.0")) ELSE JNum("0.0")))>>)>>))>>)>>))>>)>>))>>)

Fallback1099(flat) ==
    LET payer == find_value(flat, <<<<"payer", "_", "name">>, <<"payer", "'", "s", " ", "name">>, <<"payer", "_", "address">>, <<"payer">>>>, JStr(""))
        payer_tin == find_value(flat, <<<<"payer", "_", "tin">>, <<"payer", "'", "s", " ", "tin">>, <<"payer", " ", "tin">>>>, JStr(""))
        payer_telephone == find_value(flat, <<<<"payer", "_", "telephone">>, <<"payer", "'", "s", " ", "telephone">>, <<"payer", " ", "phone">>, <<"telephone">>>>, JStr(""))
        recipient_tin == find_value(flat, <<<<"recipient", "_", "tin">>, <<"recipient", "'", "s", " ", "tin">>, <<"recipient", " ", "tin">>>>, JStr(""))
        recipient_name == find_value(flat, <<<<"recipient", "_", "name">>, <<"recipient", "'", "s", " ", "name">>, <<"recipient", "_", "address">>, <<"recipient">>>>, JStr(""))
        account_no == find_value(flat, <<<<"account">>, <<"account", "_", "number">>, <<"account", " ", "no">>>>, JStr(""))
        payer_rtn == find_value(flat, <<<<"payer", "_", "rtn">>, <<"rtn">>, <<"routing">>>>, JStr(""))
        fatca == find_value(flat, <<<<"fatca">>, <<"fatca", "_", "filing">>, <<"fatca", " ", "filing", " ", "requirement">>>>, JBool(FALSE))
        box_1 == find_number_1099(flat, <<<<"box", "_", "1">>, <<"box", "1">>, <<"interest", "_", "income">>, <<"box", "_", "1", "_", "interest">>>>, JNum("0.0"))
        box_2 == find_number_1099(flat, <<<<"box", "_", "2">>, <<"box", "2">>, <<"early", "_", "withdrawal">>, <<"withdrawal", "_", "penalty">>>>, JNum("0.0"))
        box_3 == find_number_1099(flat, <<<<"box", "_", "3">>, <<"box", "3">>, <<"savings", "_", "bonds">>, <<"treasury">>>>, JNum("0.0"))
        box_4 == find_number_1099(flat, <<<<"box", "_", "4">>, <<"box", "4">>, <<"federal", "_", "tax">>, <<"tax", "_", "withheld">>>>, JNum("0.0"))
        box_5 == find_number_1099(flat, <<<<"box", "_", "5">>, <<"box", "5">>, <<"investment", "_", "expenses">>>>, JNum("0.0"))
        box_6 == find_number_1099(flat, <<<<"box", "_", "6">>, <<"box", "6">>, <<"foreign", "_", "tax">>>>, JNull)
        box_7 == find_value(flat, <<<<"box", "_", "7">>, <<"box", "7">>, <<"foreign", "_", "country">>, <<"us", "_", "possession">>>>, JNull)
        box_8 == find_number_1099(flat, <<<<"box", "_", "8">>, <<"box", "8">>, <<"tax", "_", "exempt">>>>, JNull)
        box_9 == find_number_1099(flat, <<<<"box", "_", "9">>, <<"box", "9">>, <<"private", "_", "activity">>>>, JNull)
        box_10 == find_number_1099(flat, <<<<"box", "_", "1", "0">>, <<"box", "1", "0">>, <<"market", "_", "discount">>>>, JNull)
        box_11 == find_number_1099(flat, <<<<"box", "_", "1", "1">>, <<"box", "1", "1">>, <<"bond", "_", "premium">>>>, JNull)
        box_12 == find_number_1099(flat, <<<<"box", "_", "1", "2">>, <<"box", "1", "2">>, <<"bond", "_", "premium", "_", "treasury">>>>, JNull)
        box_13 == find_number_1099(flat, <<<<"box", "_", "1", "3">>, <<"box", "1", "3">>, <<"bond", "_", "premium", "_", "tax", "_", "exempt">>>>, JNull)
        box_14 == find_value(flat, <<<<"box", "_", "1", "4">>, <<"box", "1", "4">>, <<"cusip">>, <<"tax", "_", "credit", "_", "bond", "_", "cusip">>>>, JNull)
        box_15 == find_value(flat, <<<<"box", "_", "1", "5">>, <<"state">>>>, JNull)
        box_16 == find_value(flat, <<<<"box", "_", "1", "6">>, <<"state", "_", "id">>>>, JNull)
        box_17 == find_number_1099(flat, <<<<"box", "_", "1", "7">>, <<"state", "_", "tax">>>>, JNum("0.0"))
        year == find_value(flat, <<<<"year">>, <<"tax", "_", "year">>>>, JStr("2024"))
    IN  JList(<<
          JDict(<<
            KV(<<"forms">>, JList(<<
              JDict(<<
                KV(<<"form", "_", "header">>, JDict(<<
                  KV(<<"form", "_", "number">>, JStr("1099-INT")),
                  KV(<<"year">>, StrOf(year)),
                  KV(<<"type">>, JStr("Interest Income")),
                  KV(<<"text", "_", "array">>, JList(<<
                    JStr("Copy B"),
                    JStr("For Recipient"),
                    JStr("OMB No. 1545-0112"),
                    JStr("Department of the Treasury - Internal Revenue Service")>>))>>)),
                KV(<<"boxes">>, JList(<<
                  JDict(<<
                    KV(<<"identification", "_", "plane">>, JList(<<
                      JDict(<<KV(<<"data">>, JList(<<JDict(<<KV(<<"code">>, JStr("Payer")), KV(<<"label">>, JStr("Payer's name, address and telephone")), KV(<<"value">>, clean_str_1099(payer))>>)>>))>>),
                      JDict(<<KV(<<"data">>, JList(<<JDict(<<KV(<<"code">>, JStr("Payer TIN")), KV(<<"label">>, JStr("Payer's TIN")), KV(<<"value">>, clean_str_1099(payer_tin))>>)>>))>>),
                      JDict(<<KV(<<"data">>, JList(<<JDict(<<KV(<<"code">>, JStr("Payer Telephone")), KV(<<"label">>, JStr("Payer's telephone number")), KV(<<"value">>, clean_str_1099(payer_telephone))>>)>>))>>),
                      JDict(<<KV(<<"data">>, JList(<<JDict(<<KV(<<"code">>, JStr("Recipient TIN")), KV(<<"label">>, JStr("Recipient's TIN")), KV(<<"value">>, clean_str_1099(recipient_tin))>>)>>))>>),
                      JDict(<<KV(<<"data">>, JList(<<JDict(<<KV(<<"code">>, JStr("Recipient Name")), KV(<<"label">>, JStr("Recipient's name and address")), KV(<<"value">>, clean_str_1099(recipient_name))>>)>>))>>),
                      JDict(<<KV(<<"data">>, JList(<<JDict(<<KV(<<"code">>, JStr("Account No")), KV(<<"label">>, JStr("Account number")), KV(<<"value">>, clean_str_1099(account_no))>>)>>))>>),
                      JDict(<<KV(<<"data">>, JList(<<JDict(<<KV(<<"code">>, JStr("Payer RTN")), KV(<<"label">>, JStr("Payer's RTN")), KV(<<"value">>, clean_str_1099(payer_rtn))>>)>>))>>),
                      JDict(<<KV(<<"data">>, JList(<<JDict(<<KV(<<"code">>, JStr("FATCA")), KV(<<"label">>, JStr("FATCA filing requirement")), KV(<<"value">>, (IF fatca.t = "bool" THEN fatca ELSE JBool(FALSE)))>>)>>))>>)>>))>>),
                  JDict(<<
                    KV(<<"financial", "_", "plane">>, JList(<<
                      JDict(<<KV(<<"data">>, JList(<<JDict(<<KV(<<"code">>, JStr("1")), KV(<<"label">>, JStr("Interest income")), KV(<<"value">>, box_1)>>)>>))>>),
                      JDict(<<KV(<<"data">>, JList(<<JDict(<<KV(<<"code">>, JStr("2")), KV(<<"label">>, JStr("Early withdrawal penalty")), KV(<<"value">>, box_2)>>)>>))>>),
                      JDict(<<KV(<<"data">>, JList(<<JDict(<<KV(<<"code">>, JStr("3")), KV(<<"label">>, JStr("Interest on U.S. Savings Bonds and Treasury obligations")), KV(<<"value">>, box_3)>>)>>))>>),
                      JDict(<<KV(<<"data">>, JList(<<JDict(<<KV(<<"code">>, JStr("4")), KV(<<"label">>, JStr("Federal income tax withheld")), KV(<<"value">>, box_4)>>)>>))>>),
                      JDict(<<KV(<<"data">>, JList(<<JDict(<<KV(<<"code">>, JStr("5")), KV(<<"label">>, JStr("Investment expenses")), KV(<<"value">>, box_5)>>)>>))>>),
                      JDict(<<KV(<<"data">>, JList(<<JDict(<<KV(<<"code">>, JStr("6")), KV(<<"label">>, JStr("Foreign tax paid")), KV(<<"value">>, box_6)>>)>>))>>),
                      JDict(<<KV(<<"data">>, JList(<<JDict(<<KV(<<"code">>, JStr("7")), KV(<<"label">>, JStr("Foreign country or U.S. possession")), KV(<<"value">>, (IF Truthy(box_7) THEN clean_str_1099(box_7) ELSE JNull))>>)>>))>>),
                      JDict(<<KV(<<"data">>, JList(<<JDict(<<KV(<<"code">>, JStr("8")), KV(<<"label">>, JStr("Tax-exempt interest")), KV(<<"value">>, box_8)>>)>>))>>),
                      JDict(<<KV(<<"data">>, JList(<<JDict(<<KV(<<"code">>, JStr("9")), KV(<<"label">>, JStr("Specified private activity bond interest")), KV(<<"value">>, box_9)>>)>>))>>),
                      JDict(<<KV(<<"data">>, JList(<<JDict(<<KV(<<"code">>, JStr("10")), KV(<<"label">>, JStr("Market discount")), KV(<<"value">>, box_10)>>)>>))>>),
                      JDict(<<KV(<<"data">>, JList(<<JDict(<<KV(<<"code">>, JStr("11")), KV(<<"label">>, JStr("Bond premium")), KV(<<"value">>, box_11)>>)>>))>>),
                      JDict(<<KV(<<"data">>, JList(<<JDict(<<KV(<<"code">>, JStr("12")), KV(<<"label">>, JStr("Bond premium on Treasury obligations")), KV(<<"value">>, box_12)>>)>>))>>),
                      JDict(<<KV(<<"data">>, JList(<<JDict(<<KV(<<"code">>, JStr("13")), KV(<<"label">>, JStr("Bond premium on tax-exempt bond")), KV(<<"value">>, box_13)>>)>>))>>),
                      JDict(<<KV(<<"data">>, JList(<<JDict(<<KV(<<"code">>, JStr("14")), KV(<<"label">>, JStr("Tax-exempt and tax credit bond CUSIP no.")), KV(<<"value">>, (IF Truthy(box_14) THEN clean_str_1099(box_14) ELSE JNull))>>)>>))>>)>>))>>),
                  JDict(<<
                    KV(<<"state", "_", "local", "_", "plane">>, JList(<<
                      JDict(<<KV(<<"data">>, JList(<<JDict(<<KV(<<"code">>, JStr("15")), KV(<<"label">>, JStr("State")), KV(<<"value">>, (IF Truthy(box_15) THEN clean_str_1099(box_15) ELSE JNull))>>)>>))>>),
                      JDict(<<KV(<<"data">>, JList(<<JDict(<<KV(<<"code">>, JStr("16")), KV(<<"label">>, JStr("State identification no.")), KV(<<"value">>, (IF Truthy(box_16) THEN clean_str_1099(box_16) ELSE JNull))>>)>>))>>),
                      JDict(<<KV(<<"data">>, JList(<<JDict(<<KV(<<"code">>, JStr("17")), KV(<<"label">>, JStr("State tax withheld")), KV(<<"value">>, box_17)>>)>>))>>)>>))>>)>>))>>)>>))>>)>>)

cleaned_partner(partner, idx) ==
    LET part_i == GetOr(partner, <<"part", "_", "i", "_", "pa", "rtn", "er", "ship", "_", "plane">>, JList(<<>>))
        part_ii == GetOr(partner, <<"part", "_", "ii", "_", "pa", "rtn", "er", "_", "plane">>, JList(<<>>))
        part_iii == GetOr(partner, <<"part", "_", "iii", "_", "income", "_", "loss", "_", "plane">>, JList(<<>>))
    IN  JDict(<<
          KV(<<"pa", "rtn", "er", "_", "name">>, clean_string_k1(GetOr(partner, <<"pa", "rtn", "er", "_", "name">>, JStr("")))),
          KV(<<"page", "_", "reference">>, GetOr(partner, <<"page", "_", "reference">>, JNum(ToString(idx + 1)))),
          KV(<<"part", "_", "i", "_", "pa", "rtn", "er", "ship", "_", "plane">>, JList(<<
            JDict(<<KV(<<"data">>, JList(<<JDict(<<KV(<<"code">>, JStr("A")), KV(<<"label">>, JStr("Partnership EIN")), KV(<<"value">>, clean_string_k1(get_plane_value(part_i, "A")))>>)>>))>>),
            JDict(<<KV(<<"data">>, JList(<<JDict(<<KV(<<"code">>, JStr("B")), KV(<<"label">>, JStr("Partnership Name/Address")), KV(<<"value">>, clean_string_k1(get_plane_value(part_i, "B")))>>)>>))>>),
            JDict(<<KV(<<"data">>, JList(<<JDict(<<KV(<<"code">>, JStr("C")), KV(<<"label">>, JStr("IRS Center")), KV(<<"value">>, clean_string_k1(get_plane_value(part_i, "C")))>>)>>))>>),
            JDict(<<KV(<<"data">>, JList(<<JDict(<<KV(<<"code">>, JStr("D")), KV(<<"label">>, JStr("PTP Check")), KV(<<"value">>, clean_bool_k1(get_plane_value(part_i, "D")))>>)>>))>>)>>)),
          KV(<<"part", "_", "ii", "_", "pa", "rtn", "er", "_", "plane">>, JList(<<
            JDict(<<KV(<<"data">>, JList(<<JDict(<<KV(<<"code">>, JStr("E")), KV(<<"label">>, JStr("Partner's SSN or TIN")), KV(<<"value">>, clean_string_k1(get_plane_value(part_ii, "E")))>>)>>))>>),
            JDict(<<KV(<<"data">>, JList(<<JDict(<<KV(<<"code">>, JStr("F")), KV(<<"label">>, JStr("Partner's Name/Address")), KV(<<"value">>, clean_string_k1(get_plane_value(part_ii, "F")))>>)>>))>>),
            JDict(<<KV(<<"data">>, JList(<<JDict(<<KV(<<"code">>, JStr("G")), KV(<<"label">>, JStr("General partner or LLC member-manager")), KV(<<"value">>, clean_bool_k1(get_plane_value(part_ii, "G")))>>)>>))>>),
            JDict(<<KV(<<"data">>, JList(<<JDict(<<KV(<<"code">>, JStr("H1")), KV(<<"label">>, JStr("Domestic partner")), KV(<<"value">>, clean_bool_k1(get_plane_value(part_ii, "H1")))>>)>>))>>),
            JDict(<<KV(<<"data">>, JList(<<JDict(<<KV(<<"code">>, JStr("H2")), KV(<<"label">>, JStr("Foreign partner")), KV(<<"value">>, clean_bool_k1(get_plane_value(part_ii, "H2")))>>)>>))>>),
            JDict(<<KV(<<"data">>, JList(<<JDict(<<KV(<<"code">>, JStr("I1")), KV(<<"label">>, JStr("Entity Type")), KV(<<"value">>, clean_string_k1(get_plane_value(part_ii, "I1")))>>)>>))>>),
            JDict(<<KV(<<"data">>, JList(<<JDict(<<KV(<<"code">>, JStr("J_Profit_Beg")), KV(<<"label">>, JStr("Profit Share % (Beginning)")), KV(<<"value">>, clean_number_k1(get_plane_value(part_ii, "J_Profit_Beg"), JNum("0.0")))>>)>>))>>),
            JDict(<<KV(<<"data">>, JList(<<JDict(<<KV(<<"code">>, JStr("J_Profit_End")), KV(<<"label">>, JStr("Profit Share % (Ending)")), KV(<<"value">>, clean_number_k1(get_plane_value(part_ii, "J_Profit_End"), JNum("0.0")))>>)>>))>>),
            JDict(<<KV(<<"data">>, JList(<<JDict(<<KV(<<"code">>, JStr("K1_Nonrecourse_End")), KV(<<"label">>, JStr("Nonrecourse (End)")), KV(<<"value">>, clean_number_k1(get_plane_value(part_ii, "K1_Nonrecourse_End"), JNum("0.0")))>>)>>))>>),
            JDict(<<KV(<<"data">>, JList(<<JDict(<<KV(<<"code">>, JStr("K1_Qualified_End")), KV(<<"label">>, JStr("Qualified Nonrecourse Financing (End)")), KV(<<"value">>, clean_number_k1(get_plane_value(part_ii, "K1_Qualified_End"), JNum("0.0")))>>)>>))>>),
            JDict(<<KV(<<"data">>, JList(<<JDict(<<KV(<<"code">>, JStr("K1_Recourse_End")), KV(<<"label">>, JStr("Recourse (End)")), KV(<<"value">>, clean_number_k1(get_plane_value(part_ii, "K1_Recourse_End"), JNum("0.0")))>>)>>))>>),
            JDict(<<KV(<<"data">>, JList(<<JDict(<<KV(<<"code">>, JStr("L_Beg_Capital")), KV(<<"label">>, JStr("Beginning capital account")), KV(<<"value">>, clean_number_k1(get_plane_value(part_ii, "L_Beg_Capital"), JNum("0.0")))>>)>>))>>),
            JDict(<<KV(<<"data">>, JList(<<JDict(<<KV(<<"code">>, JStr("L_Capital_Contributed")), KV(<<"label">>, JStr("Capital contributed during year")), KV(<<"value">>, clean_number_k1(get_plane_value(part_ii, "L_Capital_Contributed"), JNum("0.0")))>>)>>))>>),
            JDict(<<KV(<<"data">>, JList(<<JDict(<<KV(<<"code">>, JStr("L_Net_Income")), KV(<<"label">>, JStr("Current year net income (loss)")), KV(<<"value">>, clean_number_k1(get_plane_value(part_ii, "L_Net_Income"), JNum("0.0")))>>)>>))>>),
            JDict(<<KV(<<"data">>, JList(<<JDict(<<KV(<<"code">>, JStr("L_Other")), KV(<<"label">>, JStr("Other increase (decrease)")), KV(<<"value">>, clean_number_k1(get_plane_value(part_ii, "L_Other"), JNum("0.0")))>>)>>))>>),
            JDict(<<KV(<<"data">>, JList(<<JDict(<<KV(<<"code">>, JStr("L_Withdrawals")), KV(<<"label">>, JStr("Withdrawals & distributions")), KV(<<"value">>, clean_number_k1(get_plane_value(part_ii, "L_Withdrawals"), JNum("0.0")))>>)>>))>>),
            JDict(<<KV(<<"data">>, JList(<<JDict(<<KV(<<"code">>, JStr("L_Ending_Capital")), KV(<<"label">>, JStr("Ending capital account")), KV(<<"value">>, clean_number_k1(get_plane_value(part_ii, "L_Ending_Capital"), JNum("0.0")))>>)>>))>>),
            JDict(<<KV(<<"data">>, JList(<<JDict(<<KV(<<"code">>, JStr("M")), KV(<<"label">>, JStr("Did the partner contribute property with a built-in gain (loss)?")), KV(<<"value">>, clean_bool_k1(get_plane_value(part_ii, "M")))>>)>>))>>),
            JDict(<<KV(<<"data">>, JList(<<JDict(<<KV(<<"code">>, JStr("N_Beg")), KV(<<"label">>, JStr("Net unrecognized Section 704(c) gain or loss (Beginning)")), KV(<<"value">>, clean_number_k1(get_plane_value(part_ii, "N_Beg"), JNum("0.0")))>>)>>))>>),
            JDict(<<KV(<<"data">>, JList(<<JDict(<<KV(<<"code">>, JStr("N_End")), KV(<<"label">>, JStr("Net unrecognized Section 704(c) gain or loss (Ending)")), KV(<<"value">>, clean_number_k1(get_plane_value(part_ii, "N_End"), JNum("0.0")))>>)>>))>>)>>)),
          KV(<<"part", "_", "iii", "_", "income", "_", "loss", "_", "plane">>, JList(<<
            JDict(<<KV(<<"data">>, JList(<<JDict(<<KV(<<"code">>, JStr("1")), KV(<<"label">>, JStr("Ordinary business income (loss)")), KV(<<"value">>, clean_number_k1(get_plane_value(part_iii, "1"), JNum("0.0")))>>)>>))>>),
            JDict(<<KV(<<"data">>, JList(<<JDict(<<KV(<<"code">>, JStr("2")), KV(<<"label">>, JStr("Net rental real estate income (loss)")), KV(<<"value">>, clean_number_k1(get_plane_value(part_iii, "2"), JNum("0.0")))>>)>>))>>),
            JDict(<<KV(<<"data">>, JList(<<JDict(<<KV(<<"code">>, JStr("3")), KV(<<"label">>, JStr("Other net rental income (loss)")), KV(<<"value">>, clean_number_k1(get_plane_value(part_iii, "3"), JNum("0.0")))>>)>>))>>),
            JDict(<<KV(<<"data">>, JList(<<JDict(<<KV(<<"code">>, JStr("4a")), KV(<<"label">>, JStr("Guaranteed payments for services")), KV(<<"value">>, clean_number_k1(get_plane_value(part_iii, "4a"), JNum("0.0")))>>)>>))>>),
            JDict(<<KV(<<"data">>, JList(<<JDict(<<KV(<<"code">>, JStr("4b")), KV(<<"label">>, JStr("Guaranteed payments for capital")), KV(<<"value">>, clean_number_k1(get_plane_value(part_iii, "4b"), JNum("0.0")))>>)>>))>>),
            JDict(<<KV(<<"data">>, JList(<<JDict(<<KV(<<"code">>, JStr("4c")), KV(<<"label">>, JStr("Total guaranteed payments")), KV(<<"value">>, clean_number_k1(get_plane_value(part_iii, "4c"), JNum("0.0")))>>)>>))>>),
            JDict(<<KV(<<"data">>, JList(<<JDict(<<KV(<<"code">>, JStr("5")), KV(<<"label">>, JStr("Interest income")), KV(<<"value">>, clean_number_k1(get_plane_value(part_iii, "5"), JNum("0.0")))>>)>>))>>),
            JDict(<<KV(<<"data">>, JList(<<JDict(<<KV(<<"code">>, JStr("6a")), KV(<<"label">>, JStr("Ordinary dividends")), KV(<<"value">>, clean_number_k1(get_plane_value(part_iii, "6a"), JNum("0.0")))>>)>>))>>),
            JDict(<<KV(<<"data">>, JList(<<JDict(<<KV(<<"code">>, JStr("6b")), KV(<<"label">>, JStr("Qualified dividends")), KV(<<"value">>, clean_number_k1(get_plane_value(part_iii, "6b"), JNum("0.0")))>>)>>))>>),
            JDict(<<KV(<<"data">>, JList(<<JDict(<<KV(<<"code">>, JStr("6c")), KV(<<"label">>, JStr("Dividend equivalents")), KV(<<"value">>, clean_number_k1(get_plane_value(part_iii, "6c"), JNum("0.0")))>>)>>))>>),
            JDict(<<KV(<<"data">>, JList(<<JDict(<<KV(<<"code">>, JStr("7")), KV(<<"label">>, JStr("Royalties")), KV(<<"value">>, clean_number_k1(get_plane_value(part_iii, "7"), JNum("0.0")))>>)>>))>>),
            JDict(<<KV(<<"data">>, JList(<<JDict(<<KV(<<"code">>, JStr("8")), KV(<<"label">>, JStr("Net short-term capital gain (loss)")), KV(<<"value">>, clean_number_k1(get_plane_value(part_iii, "8"), JNum("0.0")))>>)>>))>>),
            JDict(<<KV(<<"data">>, JList(<<JDict(<<KV(<<"code">>, JStr("9a")), KV(<<"label">>, JStr("Net long-term capital gain (loss)")), KV(<<"value">>, clean_number_k1(get_plane_value(part_iii, "9a"), JNum("0.0")))>>)>>))>>),
            JDict(<<KV(<<"data">>, JList(<<JDict(<<KV(<<"code">>, JStr("9b")), KV(<<"label">>, JStr("Collectibles (28%) gain (loss)")), KV(<<"value">>, clean_number_k1(get_plane_value(part_iii, "9b"), JNum("0.0")))>>)>>))>>),
            JDict(<<KV(<<"data">>, JList(<<JDict(<<KV(<<"code">>, JStr("9c")), KV(<<"label">>, JStr("Unrecaptured section 1250 gain")), KV(<<"value">>, clean_number_k1(get_plane_value(part_iii, "9c"), JNum("0.0")))>>)>>))>>),
            JDict(<<KV(<<"data">>, JList(<<JDict(<<KV(<<"code">>, JStr("10")), KV(<<"label">>, JStr("Net section 1231 gain (loss)")), KV(<<"value">>, clean_number_k1(get_plane_value(part_iii, "10"), JNum("0.0")))>>)>>))>>),
            JDict(<<KV(<<"data">>, JList(<<JDict(<<KV(<<"code">>, JStr("11")), KV(<<"label">>, JStr("Other income (loss)")), KV(<<"value">>, clean_array_k1(get_plane_value(part_iii, "11")))>>)>>))>>),
            JDict(<<KV(<<"data">>, JList(<<JDict(<<KV(<<"code">>, JStr("12")), KV(<<"label">>, JStr("Section 179 deduction")), KV(<<"value">>, clean_number_k1(get_plane_value(part_iii, "12"), JNum("0.0")))>>)>>))>>),
            JDict(<<KV(<<"data">>, JList(<<JDict(<<KV(<<"code">>, JStr("13")), KV(<<"label">>, JStr("Other deductions")), KV(<<"value">>, clean_array_k1(get_plane_value(part_iii, "13")))>>)>>))>>),
            JDict(<<KV(<<"data">>, JList(<<JDict(<<KV(<<"code">>, JStr("14")), KV(<<"label">>, JStr("Self-employment earnings (loss)")), KV(<<"value">>, clean_array_k1(get_plane_value(part_iii, "14")))>>)>>))>>),
            JDict(<<KV(<<"data">>, JList(<<JDict(<<KV(<<"code">>, JStr("15")), KV(<<"label">>, JStr("Credits")), KV(<<"value">>, clean_array_k1(get_plane_value(part_iii, "15")))>>)>>))>>),
            JDict(<<KV(<<"data">>, JList(<<JDict(<<KV(<<"code">>, JStr("16")), KV(<<"label">>, JStr("Schedule K-3 attached check")), KV(<<"value">>, clean_bool_k1(get_plane_value(part_iii, "16")))>>)>>))>>),
            JDict(<<KV(<<"data">>, JList(<<JDict(<<KV(<<"code">>, JStr("17")), KV(<<"label">>, JStr("Alternative minimum tax (AMT) items")), KV(<<"value">>, clean_array_k1(get_plane_value(part_iii, "17")))>>)>>))>>),
            JDict(<<KV(<<"data">>, JList(<<JDict(<<KV(<<"code">>, JStr("18")), KV(<<"label">>, JStr("Tax-exempt income and nondeductible expenses")), KV(<<"value">>, clean_array_k1(get_plane_value(part_iii, "18")))>>)>>))>>),
            JDict(<<KV(<<"data">>, JList(<<JDict(<<KV(<<"code">>, JStr("19")), KV(<<"label">>, JStr("Distributions")), KV(<<"value">>, clean_array_k1(get_plane_value(part_iii, "19")))>>)>>))>>),
            JDict(<<KV(<<"data">>, JList(<<JDict(<<KV(<<"code">>, JStr("20")), KV(<<"label">>, JStr("Other information")), KV(<<"value">>, clean_array_k1(get_plane_value(part_iii, "20")))>>)>>))>>),
            JDict(<<KV(<<"data">>, JList(<<JDict(<<KV(<<"code">>, JStr("21")), KV(<<"label">>, JStr("Foreign taxes paid or accrued")), KV(<<"value">>, clean_number_k1(get_plane_value(part_iii, "21"), JNum("0.0")))>>)>>))>>),
            JDict(<<KV(<<"data">>, JList(<<JDict(<<KV(<<"code">>, JStr("22")), KV(<<"label">>, JStr("More than one activity for at-risk purposes")), KV(<<"value">>, clean_bool_k1(get_plane_value(part_iii, "22")))>>)>>))>>),
            JDict(<<KV(<<"data">>, JList(<<JDict(<<KV(<<"code">>, JStr("23")), KV(<<"label">>, JStr("More than one activity for passive activity purposes")), KV(<<"value">>, clean_bool_k1(get_plane_value(part_iii, "23")))>>)>>))>>)>>))>>)

PassThroughK1(doc_metadata, cleaned_partners) ==
    JList(<<
      JDict(<<
        KV(<<"document", "_", "metadata">>, JDict(<<
          KV(<<"form", "_", "type">>, GetOr(doc_metadata, <<"form", "_", "type">>, JStr("Schedule K-1 (Form 1065)"))),
          KV(<<"tax", "_", "year">>, StrOf(GetOr(doc_metadata, <<"tax", "_", "year">>, JStr("2024")))),
          KV(<<"pa", "rtn", "er", "ship", "_", "name">>, clean_string_k1(GetOr(doc_metadata, <<"pa", "rtn", "er", "ship", "_", "name">>, JStr("")))),
          KV(<<"pa", "rtn", "er", "ship", "_", "ein">>, clean_string_k1(GetOr(doc_metadata, <<"pa", "rtn", "er", "ship", "_", "ein">>, JStr(""))))>>)),
        KV(<<"pa", "rtn", "er", "_", "records">>, JList(cleaned_partners))>>)>>)

FallbackK1(flat) ==
    JList(<<
      JDict(<<
        KV(<<"document", "_", "metadata">>, JDict(<<
          KV(<<"form", "_", "type">>, JStr("Schedule K-1 (Form 1065)")),
          KV(<<"tax", "_", "year">>, StrOf(find_value(flat, <<<<"year">>, <<"tax", "_", "year">>>>, JStr("2024")))),
          KV(<<"pa", "rtn", "er", "ship", "_", "name">>, find_value(flat, <<<<"pa", "rtn", "er", "ship", "_", "name">>, <<"pa", "rtn", "er", "ship">>>>, JStr(""))),
          KV(<<"pa", "rtn", "er", "ship", "_", "ein">>, find_value(flat, <<<<"pa", "rtn", "er", "ship", "_", "ein">>, <<"ein">>>>, JStr("")))>>)),
        KV(<<"pa", "rtn", "er", "_", "records">>, JList(<<
          JDict(<<
            KV(<<"pa", "rtn", "er", "_", "name">>, find_value(flat, <<<<"pa", "rtn", "er", "_", "name">>, <<"pa", "rtn", "er">>>>, JStr(""))),
            KV(<<"page", "_", "reference">>, JNum("1")),
            KV(<<"part", "_", "i", "_", "pa", "rtn", "er", "ship", "_", "plane">>, JList(<<
              JDict(<<KV(<<"data">>, JList(<<JDict(<<KV(<<"code">>, JStr("A")), KV(<<"label">>, JStr("Partnership EIN")), KV(<<"value">>, find_value(flat, <<<<"pa", "rtn", "er", "ship", "_", "ein">>, <<"ein">>>>, JStr("")))>>)>>))>>),
              JDict(<<KV(<<"data">>, JList(<<JDict(<<KV(<<"code">>, JStr("B")), KV(<<"label">>, JStr("Partnership Name/Address")), KV(<<"value">>, find_value(flat, <<<<"pa", "rtn", "er", "ship", "_", "name">>, <<"pa", "rtn", "er", "ship">>>>, JStr("")))>>)>>))>>),
              JDict(<<KV(<<"data">>, JList(<<JDict(<<KV(<<"code">>, JStr("C")), KV(<<"label">>, JStr("IRS Center")), KV(<<"value">>, find_value(flat, <<<<"irs", "_", "center">>>>, JStr("")))>>)>>))>>),
              JDict(<<KV(<<"data">>, JList(<<JDict(<<KV(<<"code">>, JStr("D")), KV(<<"label">>, JStr("PTP Check")), KV(<<"value">>, JBool(FALSE))>>)>>))>>)>>)),
            KV(<<"part", "_", "ii", "_", "pa", "rtn", "er", "_", "plane">>, JList(<<
              JDict(<<KV(<<"data">>, JList(<<JDict(<<KV(<<"code">>, JStr("E")), KV(<<"label">>, JStr("Partner's SSN or TIN")), KV(<<"value">>, find_value(flat, <<<<"pa", "rtn", "er", "_", "tin">>, <<"pa", "rtn", "er", "_", "ssn">>, <<"tin">>>>, JStr("")))>>)>>))>>),
              JDict(<<KV(<<"data">>, JList(<<JDict(<<KV(<<"code">>, JStr("F")), KV(<<"label">>, JStr("Partner's Name/Address")), KV(<<"value">>, find_value(flat, <<<<"pa", "rtn", "er", "_", "name">>, <<"pa", "rtn", "er">>>>, JStr("")))>>)>>))>>),
              JDict(<<KV(<<"data">>, JList(<<JDict(<<KV(<<"code">>, JStr("G")), KV(<<"label">>, JStr("General partner or LLC member-manager")), KV(<<"value">>, JBool(FALSE))>>)>>))>>),
              JDict(<<KV(<<"data">>, JList(<<JDict(<<KV(<<"code">>, JStr("H1")), KV(<<"label">>, JStr("Domestic partner")), KV(<<"value">>, JBool(FALSE))>>)>>))>>),
              JDict(<<KV(<<"data">>, JList(<<JDict(<<KV(<<"code">>, JStr("H2")), KV(<<"label">>, JStr("Foreign partner")), KV(<<"value">>, JBool(FALSE))>>)>>))>>),
              JDict(<<KV(<<"data">>, JList(<<JDict(<<KV(<<"code">>, JStr("I1")), KV(<<"label">>, JStr("Entity Type")), KV(<<"value">>, find_value(flat, <<<<"entity", "_", "type">>>>, JStr("")))>>)>>))>>),
              JDict(<<KV(<<"data">>, JList(<<JDict(<<KV(<<"code">>, JStr("J_Profit_Beg")), KV(<<"label">>, JStr("Profit Share % (Beginning)")), KV(<<"value">>, find_number_k1(flat, <<<<"profit", "_", "share">>, <<"j", "_", "profit">>>>, JNum("0.0")))>>)>>))>>),
              JDict(<<KV(<<"data">>, JList(<<JDict(<<KV(<<"code">>, JStr("L_Beg_Capital")), KV(<<"label">>, JStr("Beginning capital account")), KV(<<"value">>, find_number_k1(flat, <<<<"beg", "_", "capital">>, <<"beginning", "_", "capital">>>>, JNum("0.0")))>>)>>))>>),
              JDict(<<KV(<<"data">>, JList(<<JDict(<<KV(<<"code">>, JStr("L_Net_Income")), KV(<<"label">>, JStr("Current year net income (loss)")), KV(<<"value">>, find_number_k1(flat, <<<<"net", "_", "income">>, <<"l", "_", "net">>>>, JNum("0.0")))>>)>>))>>),
              JDict(<<KV(<<"data">>, JList(<<JDict(<<KV(<<"code">>, JStr("L_Ending_Capital")), KV(<<"label">>, JStr("Ending capital account")), KV(<<"value">>, find_number_k1(flat, <<<<"ending", "_", "capital">>, <<"end", "_", "capital">>>>, JNum("0.0")))>>)>>))>>),
              JDict(<<KV(<<"data">>, JList(<<JDict(<<KV(<<"code">>, JStr("M")), KV(<<"label">>, JStr("Did the partner contribute property with a built-in gain (loss)?")), KV(<<"value">>, JBool(FALSE))>>)>>))>>),
              JDict(<<KV(<<"data">>, JList(<<JDict(<<KV(<<"code">>, JStr("N_Beg")), KV(<<"label">>, JStr("Net unrecognized Section 704(c) gain or loss (Beginning)")), KV(<<"value">>, JNum("0.0"))>>)>>))>>),
              JDict(<<KV(<<"data">>, JList(<<JDict(<<KV(<<"code">>, JStr("N_End")), KV(<<"label">>, JStr("Net unrecognized Section 704(c) gain or loss (Ending)")), KV(<<"value">>, JNum("0.0"))>>)>>))>>)>>)),
            KV(<<"part", "_", "iii", "_", "income", "_", "loss", "_", "plane">>, JList(<<
              JDict(<<KV(<<"data">>, JList(<<JDict(<<KV(<<"code">>, JStr("1")), KV(<<"label">>, JStr("Ordinary business income (loss)")), KV(<<"value">>, find_number_k1(flat, <<<<"box", "_", "1">>, <<"ordinary", "_", "business">>>>, JNum("0.0")))>>)>>))>>),
              JDict(<<KV(<<"data">>, JList(<<JDict(<<KV(<<"code">>, JStr("5")), KV(<<"label">>, JStr("Interest income")), KV(<<"value">>, find_number_k1(flat, <<<<"box", "_", "5">>, <<"interest", "_", "income">>>>, JNum("0.0")))>>)>>))>>),
              JDict(<<KV(<<"data">>, JList(<<JDict(<<KV(<<"code">>, JStr("6a")), KV(<<"label">>, JStr("Ordinary dividends")), KV(<<"value">>, find_number_k1(flat, <<<<"box", "_", "6", "a">>, <<"ordinary", "_", "dividends">>>>, JNum("0.0")))>>)>>))>>),
              JDict(<<KV(<<"data">>, JList(<<JDict(<<KV(<<"code">>, JStr("8")), KV(<<"label">>, JStr("Net short-term capital gain (loss)")), KV(<<"value">>, find_number_k1(flat, <<<<"box", "_", "8">>, <<"short", "_", "term">>>>, JNum("0.0")))>>)>>))>>),
              JDict(<<KV(<<"data">>, JList(<<JDict(<<KV(<<"code">>, JStr("9a")), KV(<<"label">>, JStr("Net long-term capital gain (loss)")), KV(<<"value">>, find_number_k1(flat, <<<<"box", "_", "9", "a">>, <<"long", "_", "term">>>>, JNum("0.0")))>>)>>))>>),
              JDict(<<KV(<<"data">>, JList(<<JDict(<<KV(<<"code">>, JStr("13")), KV(<<"label">>, JStr("Other deductions")), KV(<<"value">>, JList(<<>>))>>)>>))>>),
              JDict(<<KV(<<"data">>, JList(<<JDict(<<KV(<<"code">>, JStr("14")), KV(<<"label">>, JStr("Self-employment earnings (loss)")), KV(<<"value">>, JList(<<>>))>>)>>))>>),
              JDict(<<KV(<<"data">>, JList(<<JDict(<<KV(<<"code">>, JStr("16")), KV(<<"label">>, JStr("Schedule K-3 attached check")), KV(<<"value">>, JBool(FALSE))>>)>>))>>),
              JDict(<<KV(<<"data">>, JList(<<JDict(<<KV(<<"code">>, JStr("21")), KV(<<"label">>, JStr("Foreign taxes paid or accrued")), KV(<<"value">>, JNum("0.0"))>>)>>))>>),
              JDict(<<KV(<<"data">>, JList(<<JDict(<<KV(<<"code">>, JStr("22")), KV(<<"label">>, JStr("More than one activity for at-risk purposes")), KV(<<"value">>, JBool(FALSE))>>)>>))>>),
              JDict(<<KV(<<"data">>, JList(<<JDict(<<KV(<<"code">>, JStr("23")), KV(<<"label">>, JStr("More than one activity for passive activity purposes")), KV(<<"value">>, JBool(FALSE))>>)>>))>>)>>))>>)>>))>>)>>)

\* if isinstance(raw_data, list) and len(raw_data) > 0: raw_data = raw_data[0]
Unwrap(raw) ==
    IF raw.t = "list" /\ raw.kids # <<>> THEN raw.kids[1].val ELSE raw

\* flatten_dict(raw_data) if isinstance(raw_data, dict) else {}
FlatOf(raw) == IF raw.t = "dict" THEN flatten_dict(raw, <<>>) ELSE <<>>

transform_to_w2_structure(raw_data) ==
    LET raw == Unwrap(raw_data)
    IN  IF HasKey(raw, <<"error">>) THEN raw
        ELSE W2Result(FlatOf(raw))

\* the plane of the last box that has the key, None without one
PlaneOf(boxes, key) ==
    LET hits == {i \in 1..Len(boxes.kids) : HasKey(boxes.kids[i].val, key)}
    IN  IF hits = {} THEN JNull
        ELSE Get(boxes.kids[CHOOSE i \in hits : \A j \in hits : j <= i].val, key)

\* the forms of the model's output that carry an identification and a
\* financial plane, each rebuilt from its planes
all_processed_forms(forms) ==
    LET processed(form) ==
            LET boxes == GetOr(form, <<"boxes">>, JList(<<>>))
                id_plane == PlaneOf(boxes, <<"identification", "_", "plane">>)
                fin_plane == PlaneOf(boxes, <<"financial", "_", "plane">>)
                state_plane == PlaneOf(boxes, <<"state", "_", "local", "_", "plane">>)
            IN  IF Truthy(id_plane) /\ Truthy(fin_plane)
                THEN <<processed_form_1099(form, id_plane, fin_plane, state_plane)>>
                ELSE <<>>
    IN  Flatten([i \in 1..Len(forms.kids) |-> processed(forms.kids[i].val)])

transform_to_1099int_structure(raw_data) ==
    LET raw == Unwrap(raw_data)
        forms == Get(raw, <<"forms">>)
        processed == IF forms.t = "list" /\ forms.kids # <<>>
                     THEN all_processed_forms(forms) ELSE <<>>
    IN  IF HasKey(raw, <<"error">>) THEN raw
        ELSE IF processed # <<>>
        THEN JList(<<JDict(<<KV(<<"forms">>, JList(processed))>>)>>)
        ELSE Fallback1099(FlatOf(raw))

transform_to_k1_structure(raw_data) ==
    LET raw == Unwrap(raw_data)
        doc_metadata == Get(raw, <<"document", "_", "metadata">>)
        partner_records == GetOr(raw, <<"pa", "rtn", "er", "_", "records">>, JList(<<>>))
    IN  IF HasKey(raw, <<"error">>) THEN raw
        ELSE IF Truthy(doc_metadata) /\ Truthy(partner_records)
        THEN PassThroughK1(doc_metadata,
                 [i \in 1..Len(partner_records.kids) |->
                     cleaned_partner(partner_records.kids[i].val, i - 1)])
        ELSE FallbackK1(FlatOf(raw))

\* the transformer VisionClient.extract applies for the form type
Transform(form, raw) ==
    CASE form = "W-2" -> transform_to_w2_structure(raw)
      [] form = "1099-INT" -> transform_to_1099int_structure(raw)
      [] form = "K-1" -> transform_to_k1_structure(raw)

(***************************************************************************)
(* MultiPage8805Processor / MultiPage8804Processor                         *)
(* (forms/form_8805/extractor.py, forms/form_8804/extractor.py): the two   *)
(* process_pdf pipelines are the same program over their own detector.     *)
(***************************************************************************)
NoRangeResult ==
    [error |-> "", extracted_forms |-> <<>>, page_ranges_found |-> <<>>,
     total_forms |-> 0]

RangeIdle ==
    /\ processor = "none"
    /\ pp_pc = "idle"
    /\ page_ranges = <<>>
    /\ pages_to_extract = <<>>
    /\ range_images = <<>>
    /\ range_pos = 0
    /\ all_forms = <<>>
    /\ pp_result = NoRangeResult

NormIdle ==
    /\ nz_pc = "idle"
    /\ nz_form = "none"
    /\ raw_result = JNull
    /\ transformed = JNull
    /\ retransformed = JNull

NoClients ==
    [gemini |-> FALSE, groq |-> FALSE, groq_backup |-> FALSE, openai |-> FALSE,
     tesseract |-> FALSE]
NoExResult == [kind |-> "none", via |-> "none"]

ExtractIdle ==
    /\ extractor = "none"
    /\ model = ""
    /\ clients = NoClients
    /\ ex_pc = "idle"
    /\ calls = <<>>
    /\ ex_result = NoExResult

LaterIdle == RangeIdle /\ NormIdle /\ ExtractIdle

K3Idle ==
    /\ k3_pc = "idle"
    /\ k3_pages = <<>>
    /\ page_images = <<>>
    /\ page_pos = 0
    /\ returned = <<>>
    /\ raw_results = <<>>
    /\ document_metadata = NoMetadata
    /\ partner_name = ""
    /\ all_part_data = EmptyParts
    /\ k3_result = NoK3Result

(***************************************************************************)
(* The retry loop, shared by the two handlers: one attempt that raised e.  *)
(* A retryable error below the attempt bound sleeps, doubles the delay and *)
(* continues the loop; any other error is raised to the handler's except   *)
(* branch.  A loop that ends without a response raises last_error.         *)
(***************************************************************************)
AttemptEvent(ok) == [ev |-> "attempt", n |-> attempt + 1, ok |-> ok, secs |-> 0]
SleepEvent(secs) == [ev |-> "sleep", n |-> attempt + 1, ok |-> FALSE, secs |-> secs]

AttemptFailed(e, retryable) ==
    /\ last_error' = e
    /\ IF retryable /\ MayRetry(attempt)
       THEN /\ trace' = trace \o <<AttemptEvent(FALSE), SleepEvent(retry_delay)>>
            /\ retry_delay' = NextDelay(retry_delay)
            /\ attempt' = attempt + 1
            /\ IF attempt + 1 < max_retries
               THEN pc' = "call" /\ response' = response
               ELSE pc' = "done" /\ response' = ErrorResponse
       ELSE /\ trace' = Append(trace, AttemptEvent(FALSE))
            /\ pc' = "done"
            /\ response' = ErrorResponse
            /\ UNCHANGED <<retry_delay, attempt>>

(***************************************************************************)
(* /get-pages                                                              *)
(***************************************************************************)
\* Steps 1-2, and the locals of the retry loop
GpUpload ==
    /\ endpoint = "get-pages" /\ pc = "start"
    /\ attempt' = 0
    /\ retry_delay' = InitialRetryDelay
    /\ pc' = "call"
    /\ UNCHANGED <<laterVars, detectVars, k3Vars, model_responses, endpoint, request, pages_by_type, type_idx, chunk_idx,
                   last_error, trace, contents, chunks_sent, all_page_results,
                   total_forms_extracted, response, history, save_calls>>

GpAttemptOk ==
    /\ endpoint = "get-pages" /\ pc = "call" /\ attempt < max_retries
    /\ trace' = Append(trace, AttemptEvent(TRUE))
    /\ pc' = "parse"
    /\ UNCHANGED <<laterVars, detectVars, k3Vars, model_responses, endpoint, request, pages_by_type, type_idx, chunk_idx, attempt,
                   retry_delay, last_error, contents, chunks_sent,
                   all_page_results, total_forms_extracted, response, history,
                   save_calls>>

GpAttemptFail ==
    /\ endpoint = "get-pages" /\ pc = "call" /\ attempt < max_retries
    /\ \E e \in Errors : AttemptFailed(e, RetryableGetPages(e))
    /\ UNCHANGED <<laterVars, detectVars, k3Vars, model_responses, endpoint, request, pages_by_type, type_idx, chunk_idx,
                   contents, chunks_sent, all_page_results,
                   total_forms_extracted, history, save_calls>>

\* Steps 4-5 and the response
GpFinish ==
    /\ endpoint = "get-pages" /\ pc = "parse"
    /\ response' = [NoResponse EXCEPT !.status = 200, !.success = TRUE,
                                      !.has_data = TRUE]
    /\ pc' = "done"
    /\ UNCHANGED <<laterVars, detectVars, k3Vars, model_responses, endpoint, request, pages_by_type, type_idx, chunk_idx, attempt,
                   retry_delay, last_error, trace, contents, chunks_sent,
                   all_page_results, total_forms_extracted, history, save_calls>>

(***************************************************************************)
(* /extract-form                                                           *)
(***************************************************************************)
\* Group pages by detected_type
EfGroupPages ==
    /\ endpoint = "extract-form" /\ pc = "start"
    /\ pages_by_type' = GroupByType(request)
    /\ type_idx' = 1
    /\ pc' = "type"
    /\ UNCHANGED <<laterVars, detectVars, k3Vars, model_responses, endpoint, request, chunk_idx, attempt, retry_delay, last_error,
                   trace, contents, chunks_sent, all_page_results,
                   total_forms_extracted, response, history, save_calls>>

\* A form type without a prompt configuration: an error result per page
EfUnsupportedType ==
    /\ endpoint = "extract-form" /\ pc = "type"
    /\ type_idx <= Len(pages_by_type)
    /\ ~load_prompt_for_form(CurrentType)
    /\ all_page_results' =
           all_page_results \o UnsupportedResults(CurrentPages, CurrentType)
    /\ type_idx' = type_idx + 1
    /\ UNCHANGED <<laterVars, detectVars, k3Vars, model_responses, endpoint, request, pc, pages_by_type, chunk_idx, attempt,
                   retry_delay, last_error, trace, contents, chunks_sent,
                   total_forms_extracted, response, history, save_calls>>

\* A form type with a prompt configuration: enter the chunk loop
EfSupportedType ==
    /\ endpoint = "extract-form" /\ pc = "type"
    /\ type_idx <= Len(pages_by_type)
    /\ load_prompt_for_form(CurrentType)
    /\ chunk_idx' = 0
    /\ pc' = "chunk"
    /\ UNCHANGED <<laterVars, detectVars, k3Vars, model_responses, endpoint, request, pages_by_type, type_idx, attempt,
                   retry_delay, last_error, trace, contents, chunks_sent,
                   all_page_results, total_forms_extracted, response, history,
                   save_calls>>

\* The head of the chunk loop: the prompt, the contents, the retry locals
EfStartChunk ==
    /\ endpoint = "extract-form" /\ pc = "chunk"
    /\ chunk_idx < Len(CurrentPages)
    /\ contents' = PageNumbers(CurrentChunk)
    /\ attempt' = 0
    /\ retry_delay' = InitialRetryDelay
    /\ last_error' = NoError
    /\ trace' = <<>>
    /\ pc' = "call"
    /\ UNCHANGED <<laterVars, detectVars, k3Vars, model_responses, endpoint, request, pages_by_type, type_idx, chunk_idx,
                   chunks_sent, all_page_results, total_forms_extracted, response,
                   history, save_calls>>

\* The chunk loop is exhausted: the next form type
EfTypeDone ==
    /\ endpoint = "extract-form" /\ pc = "chunk"
    /\ chunk_idx >= Len(CurrentPages)
    /\ type_idx' = type_idx + 1
    /\ pc' = "type"
    /\ UNCHANGED <<laterVars, detectVars, k3Vars, model_responses, endpoint, request, pages_by_type, chunk_idx, attempt,
                   retry_delay, last_error, trace, contents, chunks_sent,
                   all_page_results, total_forms_extracted, response, history,
                   save_calls>>

\* The chunks handed to the backend: a chunk is added by its first attempt.
Sent ==
    IF attempt = 0
    THEN Append(chunks_sent, [type |-> CurrentType, pages |-> contents])
    ELSE chunks_sent

EfAttemptOk ==
    /\ endpoint = "extract-form" /\ pc = "call" /\ attempt < max_retries
    /\ chunks_sent' = Sent
    /\ trace' = Append(trace, AttemptEvent(TRUE))
    /\ pc' = "parse"
    /\ UNCHANGED <<laterVars, detectVars, k3Vars, model_responses, endpoint, request, pages_by_type, type_idx, chunk_idx, attempt,
                   retry_delay, last_error, contents, all_page_results,
                   total_forms_extracted, response, history, save_calls>>

EfAttemptFail ==
    /\ endpoint = "extract-form" /\ pc = "call" /\ attempt < max_retries
    /\ chunks_sent' = Sent
    /\ \E e \in Errors : AttemptFailed(e, RetryableExtractForm(e))
    /\ UNCHANGED <<laterVars, detectVars, k3Vars, model_responses, endpoint, request, pages_by_type, type_idx, chunk_idx,
                   contents, all_page_results, total_forms_extracted, history,
                   save_calls>>

\* Parse the response, distribute the forms to the pages of the chunk
EfProcessChunk ==
    /\ endpoint = "extract-form" /\ pc = "parse"
    /\ \E resp \in BackendResponses(CurrentChunk) :
         LET chunk_forms == ChunkForms(resp)
         IN  /\ total_forms_extracted' = total_forms_extracted + Len(chunk_forms)
             /\ all_page_results' =
                    all_page_results
                    \o FormsByPage(CurrentChunk, CurrentType, chunk_forms)
             /\ model_responses' =
                    Append(model_responses,
                           [pages |-> PageNumbers(CurrentChunk), response |-> resp])
    /\ chunk_idx' = chunk_idx + MAX_PAGES_PER_BATCH
    /\ pc' = "chunk"
    /\ UNCHANGED <<laterVars, detectVars, k3Vars, endpoint, request, pages_by_type, type_idx, attempt,
                   retry_delay, last_error, trace, contents, chunks_sent,
                   response, history, save_calls>>

\* The exception of save_entry reaches the handler's except branch.
EfFinishSaveRaises ==
    /\ endpoint = "extract-form" /\ pc = "type"
    /\ type_idx > Len(pages_by_type)
    /\ LET extracted_forms_list == ExtractedFormsList(all_page_results)
           ok == [status |-> 200, success |-> TRUE, has_data |-> TRUE,
                  page_results |-> all_page_results,
                  forms_in_message |-> total_forms_extracted,
                  api_calls_made |-> ApiCallsMade(Len(request))]
       IN  IF extracted_forms_list # <<>>
           THEN /\ save_calls' = save_calls + 1
                /\ \E saved \in BOOLEAN :
                     /\ history' = IF saved
                                   THEN Append(history,
                                            [total_forms_extracted |->
                                                 Len(extracted_forms_list)])
                                   ELSE history
                     /\ response' = IF saved THEN ok ELSE ErrorResponse
           ELSE response' = ok /\ UNCHANGED <<history, save_calls>>
    /\ pc' = "done"
    /\ UNCHANGED <<laterVars, detectVars, k3Vars, model_responses, endpoint, request, pages_by_type, type_idx, chunk_idx, attempt,
                   retry_delay, last_error, trace, contents, chunks_sent,
                   all_page_results, total_forms_extracted>>

\* The response, and the history entry when a form was extracted; an
\* exception of save_entry is caught and logged.
EfFinish ==
    /\ endpoint = "extract-form" /\ pc = "type"
    /\ type_idx > Len(pages_by_type)
    /\ response' = [status |-> 200, success |-> TRUE, has_data |-> TRUE,
                    page_results |-> all_page_results,
                    forms_in_message |-> total_forms_extracted,
                    api_calls_made |-> ApiCallsMade(Len(request))]
    /\ LET extracted_forms_list == ExtractedFormsList(all_page_results)
       IN  IF extracted_forms_list # <<>>
           THEN /\ save_calls' = save_calls + 1
                /\ \E saved \in BOOLEAN :
                     history' = IF saved
                                THEN Append(history,
                                         [total_forms_extracted |->
                                              Len(extracted_forms_list)])
                                ELSE history
           ELSE UNCHANGED <<history, save_calls>>
    /\ pc' = "done"
    /\ UNCHANGED <<laterVars, detectVars, k3Vars, model_responses, endpoint, request, pages_by_type, type_idx, chunk_idx, attempt,
                   retry_delay, last_error, trace, contents, chunks_sent,
                   all_page_results, total_forms_extracted>>

InitApi ==
    /\ endpoint \in {"get-pages", "extract-form"}
    /\ request \in IF endpoint = "extract-form" THEN Requests ELSE {<<>>}
    /\ pc = "start"
    /\ pages_by_type = <<>>
    /\ type_idx = 0
    /\ chunk_idx = 0
    /\ attempt = 0
    /\ retry_delay = 0
    /\ last_error = NoError
    /\ trace = <<>>
    /\ contents = <<>>
    /\ chunks_sent = <<>>
    /\ all_page_results = <<>>
    /\ total_forms_extracted = 0
    /\ response = NoResponse
    /\ history = <<>>
    /\ save_calls = 0
    /\ model_responses = <<>>

InitA == DetectIdle /\ InitApi /\ K3Idle /\ LaterIdle

NextApi ==
    \/ GpUpload
    \/ GpAttemptOk
    \/ GpAttemptFail
    \/ GpFinish
    \/ EfGroupPages
    \/ EfUnsupportedType
    \/ EfSupportedType
    \/ EfStartChunk
    \/ EfTypeDone
    \/ EfAttemptOk
    \/ EfAttemptFail
    \/ EfProcessChunk
    \/ EfFinish

SpecApi == InitA /\ [][NextApi]_vars

(***************************************************************************)
(* SpecDetect: a document and the four detectors.                          *)
(***************************************************************************)
InitD == InitDetect /\ ApiIdle /\ K3Idle /\ LaterIdle

NextDetect ==
    \/ DetectK1
    \/ DetectK3
    \/ Detect8805
    \/ Detect8804

SpecDetect == InitD /\ [][NextDetect]_vars

(***************************************************************************)
(* MultiPageK3Processor.process_pdf: detect, render, extract page by page  *)
(* (batch_extract), consolidate.                                           *)
(***************************************************************************)
MaxK3DocPages == 3
MaxK3Pages == 2

K3Documents ==
    {d \in UNION {[1..n -> {K3Sheet, Blank}] : n \in 0..MaxK3DocPages} :
        Cardinality({p \in 1..Len(d) : d[p] = K3Sheet}) <= MaxK3Pages}

InitK3 ==
    /\ doc \in K3Documents
    /\ k1_detected_pages = <<>>
    /\ k3_detected_ranges = <<>>
    /\ detected_ranges_8805 = <<>>
    /\ detected_ranges_8804 = <<>>
    /\ detected = {}
    /\ k3_pc = "start"
    /\ k3_pages = <<>>
    /\ page_images = <<>>
    /\ page_pos = 0
    /\ returned = <<>>
    /\ raw_results = <<>>
    /\ document_metadata = NoMetadata
    /\ partner_name = ""
    /\ all_part_data = EmptyParts
    /\ k3_result = NoK3Result

\* Step 1 without its "if not k3_pages: return" exit.
K3DetectKeepsGoing ==
    /\ k3_pc = "start"
    /\ k3_pages' = detect_k3_pages(doc)
    /\ k3_pc' = "detected"
    /\ UNCHANGED <<laterVars, detectVars, apiVars, page_images, page_pos, returned, raw_results,
                   document_metadata, partner_name, all_part_data, k3_result>>

\* Step 1: k3_pages = self.detect_k3_pages(pdf_bytes)
K3Detect ==
    /\ k3_pc = "start"
    /\ k3_pages' = detect_k3_pages(doc)
    /\ IF k3_pages' = <<>>
       THEN /\ k3_result' = K3Error("No K-3 forms found in PDF")
            /\ k3_pc' = "done"
       ELSE /\ k3_result' = k3_result
            /\ k3_pc' = "detected"
    /\ UNCHANGED <<laterVars, detectVars, apiVars, page_images, page_pos, returned, raw_results,
                   document_metadata, partner_name, all_part_data>>

\* Step 2: page_images = self.extract_k3_pages_as_images(pdf_bytes, k3_pages);
\* rendering that raises gives [].  Then batch_extract sets up its locals.
K3Render ==
    /\ k3_pc = "detected"
    /\ \E rendered \in BOOLEAN :
         page_images' = IF rendered THEN extract_k3_pages_as_images(doc, k3_pages)
                        ELSE <<>>
    /\ IF page_images' = <<>>
       THEN /\ k3_result' = K3Error("Failed to convert K-3 pages")
            /\ k3_pc' = "done"
       ELSE /\ k3_result' = k3_result
            /\ k3_pc' = "extract"
    /\ page_pos' = 0
    /\ returned' = <<>>
    /\ raw_results' = <<>>
    /\ document_metadata' = NoMetadata
    /\ partner_name' = ""
    /\ all_part_data' = EmptyParts
    /\ UNCHANGED <<laterVars, detectVars, apiVars, k3_pages>>

\* One iteration of "for page_num, img in page_images" of batch_extract.
K3ExtractPage ==
    /\ k3_pc = "extract"
    /\ page_pos < Len(page_images)
    /\ \E result \in ExtractResults :
         LET page_num == page_images[page_pos + 1]
             has_data == result.kind \in {"dict", "list"}
             heap == Append(raw_results, [page |-> page_num, raw |-> result])
             mem == MergePartsFrom([heap |-> heap, apd |-> all_part_data],
                                   Len(heap), 1)
         IN  /\ returned' = Append(returned, result)
             /\ raw_results' = IF result.kind = "raise" THEN raw_results
                               ELSE IF has_data THEN mem.heap ELSE heap
             /\ document_metadata' =
                   IF has_data /\ document_metadata = NoMetadata
                   THEN MetadataOf(result) ELSE document_metadata
             /\ partner_name' =
                   IF has_data /\ partner_name = ""
                   THEN result.partner_name ELSE partner_name
             /\ all_part_data' = IF has_data THEN mem.apd ELSE all_part_data
    /\ page_pos' = page_pos + 1
    /\ UNCHANGED <<laterVars, detectVars, apiVars, k3_pc, k3_pages, page_images, k3_result>>

\* End of batch_extract (default metadata, consolidated partner record) and
\* of process_pdf (_processing_metadata).
K3Finish ==
    /\ k3_pc = "extract"
    /\ page_pos = Len(page_images)
    /\ LET first_page == page_images[1]
           last_page == page_images[Len(page_images)]
           partner_record ==
               [partner_name |->
                    IF partner_name # "" THEN partner_name
                    ELSE "Partner (Pages " \o PageReference(first_page, last_page) \o ")",
                page_reference |-> PageReference(first_page, last_page),
                parts |-> [k \in PartKeys |->
                              MergedItems(raw_results, k, all_part_data[k])]]
       IN  /\ document_metadata' = IF document_metadata = NoMetadata
                                   THEN DefaultMetadata ELSE document_metadata
           /\ k3_result' = [error |-> "",
                            document_metadata |-> document_metadata',
                            partner_records |-> <<partner_record>>,
                            debug_raw_results |-> raw_results,
                            pages_extracted |-> page_images,
                            k3_pages_found |-> k3_pages,
                            total_partners |-> 1]
    /\ k3_pc' = "done"
    /\ UNCHANGED <<laterVars, detectVars, apiVars, k3_pages, page_images, page_pos, returned,
                   raw_results, partner_name, all_part_data>>

InitK == InitK3 /\ ApiIdle /\ LaterIdle

NextK3 ==
    \/ K3Detect
    \/ K3Render
    \/ K3ExtractPage
    \/ K3Finish

SpecK3 == InitK /\ [][NextK3]_vars

(***************************************************************************)
(* MultiPage8805Processor.process_pdf / MultiPage8804Processor.process_pdf: *)
(* detect ranges, render the first page of each range, extract each range. *)
(***************************************************************************)
MaxRangeDocPages == 4
MaxRawFields == 2

Sheet8805 == {"Form 8805"}
Sheet8804 == {"Form 8804"}

RangeDocuments ==
    UNION {[1..n -> {Sheet8805, Sheet8804, Blank}] : n \in 0..MaxRangeDocPages}

\* what self.extractor.extract(img, model) gives for a range: a dict without
\* an "error" key, a dict with one, something that is not a dict, an exception
RangeOutcomes == {"form", "error", "other", "raise"}

DetectRanges(form, d) ==
    IF form = "8805" THEN detect_8805_page_ranges(d, ScanDefault)
    ELSE detect_8804_page_ranges(d, ScanDefault)

NoFormsFound(form) == "No Form " \o form \o " forms found in PDF"
FailedToConvert(form) == "Failed to convert Form " \o form \o " pages"

InitRanges ==
    /\ doc \in RangeDocuments
    /\ k1_detected_pages = <<>>
    /\ k3_detected_ranges = <<>>
    /\ detected_ranges_8805 = <<>>
    /\ detected_ranges_8804 = <<>>
    /\ detected = {}
    /\ processor \in {"8805", "8804"}
    /\ pp_pc = "start"
    /\ page_ranges = <<>>
    /\ pages_to_extract = <<>>
    /\ range_images = <<>>
    /\ range_pos = 0
    /\ all_forms = <<>>
    /\ pp_result = NoRangeResult

\* Step 1: page_ranges = self.detect_880x_page_ranges(pdf_bytes)
PpDetect ==
    /\ pp_pc = "start"
    /\ page_ranges' = DetectRanges(processor, doc)
    /\ IF page_ranges' = <<>>
       THEN /\ pp_result' = [NoRangeResult EXCEPT !.error = NoFormsFound(processor)]
            /\ pp_pc' = "done"
       ELSE /\ pp_result' = pp_result
            /\ pp_pc' = "detected"
    /\ UNCHANGED <<detectVars, apiVars, k3Vars, normVars, extractVars, processor, pages_to_extract,
                   range_images, range_pos, all_forms>>

\* Step 2: pages_to_extract = [r[0] for r in page_ranges]; render them
\* (a rendering that raises gives []).
PpRender ==
    /\ pp_pc = "detected"
    /\ pages_to_extract' = [i \in 1..Len(page_ranges) |-> page_ranges[i][1]]
    /\ \E rendered \in BOOLEAN :
         range_images' = IF rendered
                         THEN extract_k3_pages_as_images(doc, pages_to_extract')
                         ELSE <<>>
    /\ IF range_images' = <<>>
       THEN /\ pp_result' = [NoRangeResult EXCEPT !.error = FailedToConvert(processor),
                                                  !.page_ranges_found = page_ranges]
            /\ pp_pc' = "done"
       ELSE /\ pp_result' = pp_result
            /\ pp_pc' = "extract"
    /\ range_pos' = 0
    /\ all_forms' = <<>>
    /\ UNCHANGED <<detectVars, apiVars, k3Vars, normVars, extractVars, processor, page_ranges>>

\* One iteration of "for (start, end), (page_num, img) in zip(page_ranges,
\* page_images)": only a dict without "error" is appended.
PpExtractRange ==
    /\ pp_pc = "extract"
    /\ range_pos < Min(Len(page_ranges), Len(range_images))
    /\ \E outcome \in RangeOutcomes :
         LET r == page_ranges[range_pos + 1]
         IN  /\ all_forms' =
                   IF outcome = "form"
                   THEN Append(all_forms,
                               [kind |-> "form", page |-> range_images[range_pos + 1],
                                page_reference |-> PageReference(r[1], r[2])])
                   ELSE all_forms
             /\ pp_pc' = IF outcome = "raise" THEN "raised" ELSE pp_pc
    /\ range_pos' = range_pos + 1
    /\ UNCHANGED <<detectVars, apiVars, k3Vars, normVars, extractVars, processor, page_ranges,
                   pages_to_extract, range_images, pp_result>>

\* results = {"extracted_forms_880x": all_forms, "_processing_metadata": ...}
PpFinish ==
    /\ pp_pc = "extract"
    /\ range_pos = Min(Len(page_ranges), Len(range_images))
    /\ pp_result' = [error |-> "", extracted_forms |-> all_forms,
                     page_ranges_found |-> page_ranges,
                     total_forms |-> Len(all_forms)]
    /\ pp_pc' = "done"
    /\ UNCHANGED <<detectVars, apiVars, k3Vars, normVars, extractVars, processor, page_ranges,
                   pages_to_extract, range_images, range_pos, all_forms>>

InitR == InitRanges /\ ApiIdle /\ K3Idle /\ NormIdle /\ ExtractIdle

NextRanges ==
    \/ PpDetect
    \/ PpRender
    \/ PpExtractRange
    \/ PpFinish

SpecRanges == InitR /\ [][NextRanges]_vars

(***************************************************************************)
(* The transformers of app.py applied to a parsed model output, and then   *)
(* to their own output.                                                    *)
(***************************************************************************)
TransformerForms == {"W-2", "1099-INT", "K-1"}

\* fields a model may answer with when it does not follow the schema
RawFieldPool ==
    <<KV(<<"wages">>, JNum("100")),
      KV(<<"box", "_", "1", "0">>, JNum("7")),
      KV(<<"Box", "_", "1">>, JStr("$1,000.50")),
      KV(<<"state">>, JStr("CA"))>>

\* the flat objects of up to MaxRawFields distinct pool fields, in any order
FlatObjects ==
    {JDict([i \in 1..Len(pick) |-> RawFieldPool[pick[i]]]) :
        pick \in {p \in UNION {[1..m -> 1..Len(RawFieldPool)] : m \in 0..MaxRawFields} :
                    \A i, j \in 1..Len(p) : i # j => p[i] # p[j]}}

ErrorObject ==
    JDict(<<KV(<<"error">>, JStr("Failed to parse JSON")), KV(<<"raw">>, JStr("text"))>>)

WrappedObject == JList(<<JDict(<<KV(<<"wages">>, JStr("100"))>>)>>)

NestedObject ==
    JDict(<<KV(<<"employee">>, JDict(<<KV(<<"ssn">>, JStr("N/A")),
                                       KV(<<"name">>, JStr("Ann"))>>)),
            KV(<<"amounts">>, JList(<<JDict(<<KV(<<"box", "_", "2">>, JBool(TRUE))>>),
                                      JNum("7")>>))>>)

\* an answer in the 1099-INT schema
Shaped1099 ==
    JDict(<<KV(<<"forms">>, JList(<<JDict(<<
        KV(<<"form", "_", "header">>, JDict(<<KV(<<"year">>, JNum("2023"))>>)),
        KV(<<"boxes">>, JList(<<
            JDict(<<KV(<<"identification", "_", "plane">>, JList(<<JDict(<<KV(<<"data">>,
                JList(<<JDict(<<KV(<<"code">>, JStr("Payer")), KV(<<"value">>, JStr("Bank*"))>>)>>))>>)>>))>>),
            JDict(<<KV(<<"financial", "_", "plane">>, JList(<<JDict(<<KV(<<"data">>,
                JList(<<JDict(<<KV(<<"code">>, JStr("1")), KV(<<"value">>, JStr("100"))>>)>>))>>)>>))>>)>>))>>)>>))>>)

\* an answer in the K-1 schema
ShapedK1 ==
    JDict(<<KV(<<"document", "_", "metadata">>, JDict(<<KV(<<"tax", "_", "year">>, JNum("2023"))>>)),
            KV(<<"pa", "rtn", "er", "_", "records">>, JList(<<JDict(<<
                KV(<<"pa", "rtn", "er", "_", "name">>, JStr(" CA ")),
                KV(<<"part", "_", "iii", "_", "income", "_", "loss", "_", "plane">>,
                   JList(<<JDict(<<KV(<<"data">>, JList(<<JDict(<<
                       KV(<<"code">>, JStr("1")), KV(<<"value">>, JStr("(7.0)"))>>)>>))>>)>>))>>)>>))>>)

RawResults ==
    FlatObjects \cup {ErrorObject, WrappedObject, NestedObject, Shaped1099, ShapedK1}

InitNormalize ==
    /\ nz_pc = "parsed"
    /\ nz_form \in TransformerForms
    /\ raw_result \in RawResults
    /\ transformed = JNull
    /\ retransformed = JNull

\* transformed = transform_to_<form>_structure(raw_result)
ApplyTransformer ==
    /\ nz_pc = "parsed"
    /\ transformed' = Transform(nz_form, raw_result)
    /\ nz_pc' = "transformed"
    /\ UNCHANGED <<detectVars, apiVars, k3Vars, rangeVars, extractVars, nz_form, raw_result, retransformed>>

\* the transformer applied to its own output
ApplyTransformerAgain ==
    /\ nz_pc = "transformed"
    /\ retransformed' = Transform(nz_form, transformed)
    /\ nz_pc' = "again"
    /\ UNCHANGED <<detectVars, apiVars, k3Vars, rangeVars, extractVars, nz_form, raw_result, transformed>>

InitN == InitNormalize /\ DetectIdle /\ ApiIdle /\ K3Idle /\ RangeIdle /\ ExtractIdle
NextNormalize ==
    \/ ApplyTransformer
    \/ ApplyTransformerAgain
SpecNormalize == InitN /\ [][NextNormalize]_vars

(***************************************************************************)
(* extract() of the form extractors (FormK3Extractor, Form8804Extractor,   *)
(* Form8805Extractor: the same method in each) and of VisionClient.        *)
(***************************************************************************)
FormExtractors == {"FormK3Extractor", "Form8804Extractor", "Form8805Extractor"}

ModelIds ==
    {"gemini-2.5-flash", "meta-llama/llama-4-scout-17b-16e-instruct", "GPT-4o",
     "mixtral-8x7b", "llama-3-gemini-distill"}

\* family in model.lower()
InModelLower(family, id) ==
    CASE id = "gemini-2.5-flash" -> family = "gemini"
      [] id = "meta-llama/llama-4-scout-17b-16e-instruct" -> family = "llama"
      [] id = "GPT-4o" -> family = "gpt"
      [] id = "llama-3-gemini-distill" -> family \in {"llama", "gemini"}
      [] OTHER -> FALSE

\* str(e) of the exceptions a backend call raises
ErrorTexts ==
    {"Error code: 429 - Too Many Requests", "Rate_Limit reached for model",
     "Connection error"}

\* Treats every error of the primary client as a rate limit.
IsRateLimitAlways(error_str) == TRUE

\* ("429" in error_str or "rate_limit" in error_str.lower())
IsRateLimit(error_str) ==
    \/ error_str = "Error code: 429 - Too Many Requests"
    \/ error_str = "Rate_Limit reached for model"

\* Never hands the OCR text on.
OcrResultDropped(outcome) == [kind |-> "no_method", via |-> "none"]

\* return self._parse_k3_text(text), or after an exception
\* {"error": "No extraction method available"}
OcrResult(outcome) ==
    IF outcome = "text" THEN [kind |-> "ocr_data", via |-> "ocr"]
    ELSE [kind |-> "no_method", via |-> "none"]

\* what a backend call does: answers JSON, answers other text, or raises
CallOutcomes == {"json", "text"} \cup ErrorTexts

\* the prompt a call carries
PromptOf(ext) ==
    CASE ext = "FormK3Extractor" -> "K3_1065_SYSTEM_PROMPT"
      [] ext = "Form8804Extractor" -> "FORM_8804_SYSTEM_PROMPT"
      [] ext = "Form8805Extractor" -> "FORM_8805_SYSTEM_PROMPT"
      [] OTHER -> "prompt"

Call(backend, outcome) ==
    [backend |-> backend, model |-> model, prompt |-> PromptOf(extractor),
     outcome |-> outcome]

\* json.loads(json_text), or {"raw_response": ..., "error": "Failed to parse JSON"}
AnswerOf(backend, outcome) ==
    [kind |-> IF outcome = "json" THEN "data" ELSE "parse_error", via |-> backend]

ClientSets ==
    [gemini : BOOLEAN, groq : BOOLEAN, groq_backup : BOOLEAN, openai : BOOLEAN,
     tesseract : BOOLEAN]

\* VisionClient has the Gemini and the primary Groq client only
InitExtract ==
    /\ extractor \in FormExtractors \cup {"VisionClient"}
    /\ model \in ModelIds
    /\ clients \in ClientSets
    /\ extractor = "VisionClient" =>
          ~clients.groq_backup /\ ~clients.openai /\ ~clients.tesseract
    /\ ex_pc = "gemini"
    /\ calls = <<>>
    /\ ex_result = NoExResult

\* if "gemini" in model.lower() and self.gemini_client: try ... except: print
ExGemini ==
    /\ extractor \in FormExtractors
    /\ ex_pc = "gemini"
    /\ IF InModelLower("gemini", model) /\ clients.gemini
       THEN \E outcome \in CallOutcomes :
              /\ calls' = Append(calls, Call("gemini", outcome))
              /\ IF outcome \in ErrorTexts
                 THEN ex_pc' = "groq" /\ UNCHANGED ex_result
                 ELSE ex_pc' = "done" /\ ex_result' = AnswerOf("gemini", outcome)
       ELSE ex_pc' = "groq" /\ UNCHANGED <<calls, ex_result>>
    /\ UNCHANGED <<detectVars, apiVars, k3Vars, rangeVars, normVars, extractor, model, clients>>

\* if "llama" in model.lower() and self.groq_client: _extract_with_groq up to
\* the primary client's answer or exception
ExGroqPrimary ==
    /\ extractor \in FormExtractors
    /\ ex_pc = "groq"
    /\ IF InModelLower("llama", model) /\ clients.groq
       THEN \E outcome \in CallOutcomes :
              /\ calls' = Append(calls, Call("groq", outcome))
              /\ IF outcome \in ErrorTexts
                 THEN /\ ex_pc' = IF IsRateLimit(outcome) /\ clients.groq_backup
                                  THEN "groq_backup" ELSE "openai"
                      /\ UNCHANGED ex_result
                 ELSE ex_pc' = "done" /\ ex_result' = AnswerOf("groq", outcome)
       ELSE ex_pc' = "openai" /\ UNCHANGED <<calls, ex_result>>
    /\ UNCHANGED <<detectVars, apiVars, k3Vars, rangeVars, normVars, extractor, model, clients>>

\* _extract_with_groq: self.groq_client_backup.chat.completions.create(...)
ExGroqBackup ==
    /\ ex_pc = "groq_backup"
    /\ \E outcome \in CallOutcomes :
          /\ calls' = Append(calls, Call("groq_backup", outcome))
          /\ IF outcome \in ErrorTexts
             THEN ex_pc' = "openai" /\ UNCHANGED ex_result
             ELSE ex_pc' = "done" /\ ex_result' = AnswerOf("groq_backup", outcome)
    /\ UNCHANGED <<detectVars, apiVars, k3Vars, rangeVars, normVars, extractor, model, clients>>

\* if "gpt" in model.lower() and self.openai_client: try ... except: print
ExOpenAI ==
    /\ ex_pc = "openai"
    /\ IF InModelLower("gpt", model) /\ clients.openai
       THEN \E outcome \in CallOutcomes :
              /\ calls' = Append(calls, Call("openai", outcome))
              /\ IF outcome \in ErrorTexts
                 THEN ex_pc' = "ocr" /\ UNCHANGED ex_result
                 ELSE ex_pc' = "done" /\ ex_result' = AnswerOf("openai", outcome)
       ELSE ex_pc' = "ocr" /\ UNCHANGED <<calls, ex_result>>
    /\ UNCHANGED <<detectVars, apiVars, k3Vars, rangeVars, normVars, extractor, model, clients>>

\* if TESSERACT_AVAILABLE: try: return self._parse_k3_text(text) except: print
\* return {"error": "No extraction method available"}
ExOcr ==
    /\ ex_pc = "ocr"
    /\ IF clients.tesseract
       THEN \E outcome \in {"text", "Connection error"} :
              /\ calls' = Append(calls, Call("ocr", outcome))
              /\ ex_result' = OcrResult(outcome)
       ELSE /\ ex_result' = [kind |-> "no_method", via |-> "none"]
            /\ UNCHANGED calls
    /\ ex_pc' = "done"
    /\ UNCHANGED <<detectVars, apiVars, k3Vars, rangeVars, normVars, extractor, model, clients>>

\* VisionClient.extract up to raw_result: the Gemini branch when the id says
\* gemini and Gemini is ready, else the Groq branch when a Groq client
\* exists, else {"error": "No AI model available"}
VcExtract ==
    /\ extractor = "VisionClient"
    /\ ex_pc = "gemini"
    /\ IF InModelLower("gemini", model) /\ clients.gemini
       THEN \E outcome \in CallOutcomes :
              /\ calls' = Append(calls, Call("gemini", outcome))
              /\ ex_result' = IF outcome \in ErrorTexts
                              THEN [kind |-> "exception", via |-> "gemini"]
                              ELSE AnswerOf("gemini", outcome)
       ELSE IF clients.groq
       THEN \E outcome \in CallOutcomes :
              /\ calls' = Append(calls, Call("groq", outcome))
              /\ ex_result' = IF outcome \in ErrorTexts
                              THEN [kind |-> "exception", via |-> "groq"]
                              ELSE AnswerOf("groq", outcome)
       ELSE /\ ex_result' = [kind |-> "no_model", via |-> "none"]
            /\ UNCHANGED calls
    /\ ex_pc' = "done"
    /\ UNCHANGED <<detectVars, apiVars, k3Vars, rangeVars, normVars, extractor, model, clients>>

InitE == InitExtract /\ DetectIdle /\ ApiIdle /\ K3Idle /\ RangeIdle /\ NormIdle
NextExtract ==
    \/ ExGemini
    \/ ExGroqPrimary
    \/ ExGroqBackup
    \/ ExOpenAI
    \/ ExOcr
    \/ VcExtract
SpecExtract == InitE /\ [][NextExtract]_vars

(***************************************************************************)
(* The process_pdf pipelines side by side: one run of the K-3 processor or *)
(* of the 8805 / 8804 processor.                                           *)
(***************************************************************************)
InitPipelines == InitK \/ InitR
NextPipelines ==
    \/ K3Detect
    \/ K3Render
    \/ K3ExtractPage
    \/ K3Finish
    \/ PpDetect
    \/ PpRender
    \/ PpExtractRange
    \/ PpFinish
SpecPipelines == InitPipelines /\ [][NextPipelines]_vars

(***************************************************************************)
(* C1.  The ranges a range detector returns are the maximal runs of        *)
(* consecutive matched pages, in increasing order: every range lies within *)
(* the matched pages and has start <= end, every matched page lies in      *)
(* exactly one range, and successive ranges are separated by at least one  *)
(* unmatched page.  No matched page gives no range.                        *)
(***************************************************************************)
IsMaximalRuns(pages, ranges) ==
    LET M == {pages[i] : i \in 1..Len(pages)}
        Covers(i, p) == ranges[i][1] <= p /\ p <= ranges[i][2]
    IN  /\ \A i \in 1..Len(ranges) :
              /\ ranges[i][1] <= ranges[i][2]
              /\ \A p \in ranges[i][1]..ranges[i][2] : p \in M
        /\ \A p \in M : Cardinality({i \in 1..Len(ranges) : Covers(i, p)}) = 1
        /\ \A i \in 1..(Len(ranges) - 1) : ranges[i][2] + 1 < ranges[i + 1][1]

C1_RangesAreMaximalRuns ==
    /\ "k3_detected_ranges" \in detected =>
          IsMaximalRuns(ScanPages(doc, ScanDefault, "K-3"), k3_detected_ranges)
    /\ "detected_ranges_8805" \in detected =>
          IsMaximalRuns(ScanPages(doc, ScanDefault, "8805"), detected_ranges_8805)
    /\ "detected_ranges_8804" \in detected =>
          IsMaximalRuns(ScanPages(doc, ScanDefault, "8804"), detected_ranges_8804)

\* Matched pages 5, 6, 7, 9 have been grouped into (5,7), (9,9).
C1_Witness ==
    /\ "k3_detected_ranges" \in detected
    /\ ScanPages(doc, ScanDefault, "K-3") = <<5, 6, 7, 9>>
    /\ k3_detected_ranges = << <<5, 7>>, <<9, 9>> >>

(***************************************************************************)
(* C2.  No page of a document lies in ranges of two different detectors    *)
(* (the K-1 start pages counting as one-page ranges).                      *)
(***************************************************************************)
PagesOf(ranges) ==
    UNION { ranges[i][1]..ranges[i][2] : i \in 1..Len(ranges) }

C2_DetectorsDisjoint ==
    LET k1 == {k1_detected_pages[i] : i \in 1..Len(k1_detected_pages)}
        k3 == PagesOf(k3_detected_ranges)
        f5 == PagesOf(detected_ranges_8805)
        f4 == PagesOf(detected_ranges_8804)
    IN  /\ k1 \cap k3 = {} /\ k1 \cap f5 = {} /\ k1 \cap f4 = {}
        /\ k3 \cap f5 = {} /\ k3 \cap f4 = {}
        /\ f5 \cap f4 = {}

(***************************************************************************)
(* C3.  A backend call (the detection call of /get-pages, a chunk of       *)
(* /extract-form) is attempted at most 3 times; its only sleeps are 2s     *)
(* before the 2nd attempt and 4s before the 3rd; a sleep is always         *)
(* followed by another attempt, so none follows the final attempt.         *)
(***************************************************************************)
Last(seq) == seq[Len(seq)]
AttemptsIn(tr) == Len(SelectSeq(tr, LAMBDA x : x.ev = "attempt"))

C3_ThreeAttemptsSleepTwoFour ==
    /\ Len(trace) <= 5
    /\ AttemptsIn(trace) <= 3
    /\ \A i \in 1..Len(trace) :
         IF i % 2 = 1
         THEN trace[i].ev = "attempt" /\ trace[i].n = (i + 1) \div 2
         ELSE trace[i].ev = "sleep" /\ trace[i].secs = i
    /\ (trace # <<>> /\ Last(trace).ev = "sleep") => pc = "call"

\* Three failed attempts of one chunk, with both sleeps, ended the call.
C3_Witness ==
    /\ endpoint = "extract-form"
    /\ Len(trace) = 5
    /\ ~Last(trace).ok
    /\ pc = "done"

(***************************************************************************)
(* C4.  In both retry loops a failed attempt is followed by another        *)
(* attempt exactly when the error is HTTP 429, HTTP 503 or an overloaded   *)
(* status and fewer than 3 attempts were made; any other failure ends the  *)
(* call at once, without a sleep.                                          *)
(***************************************************************************)
LastAttemptFailed ==
    trace # <<>> /\ (Last(trace).ev = "sleep" \/ ~Last(trace).ok)

C4_RetryIffTransient ==
    LET transient == last_error.http \in {429, 503} \/ last_error.overloaded
    IN  LastAttemptFailed =>
          /\ (pc = "call") <=> (transient /\ AttemptsIn(trace) < 3)
          /\ pc # "call" =>
                Last(trace).ev = "attempt" /\ pc = "done" /\ response.status = 500

(***************************************************************************)
(* C5.  Every backend call of /extract-form carries at most 10 page        *)
(* images; the chunks of a form type are issued in request order without   *)
(* skipping or repeating a page, and when the request completes they hold  *)
(* every page of each form type that has a prompt configuration.           *)
(***************************************************************************)
IsPrefix(a, b) == Len(a) <= Len(b) /\ a = SubSeq(b, 1, Len(a))

SentPagesOfType(t) ==
    LET of_t == SelectSeq(chunks_sent, LAMBDA c : c.type = t)
    IN  Flatten([i \in 1..Len(of_t) |-> of_t[i].pages])

RequestPagesOfType(t) ==
    PageNumbers(SelectSeq(request, LAMBDA p : p.detected_type = t))

SpansSeveral ==
    Len(pages_by_type) > 1
    \/ \E i \in 1..Len(pages_by_type) :
         Len(pages_by_type[i].pages) > MAX_PAGES_PER_BATCH

C6_ChunkFailureDoesNotAbort ==
    (endpoint = "extract-form" /\ pc = "done" /\ SpansSeveral) =>
        /\ response.has_data
        /\ \A i \in 1..Len(all_page_results) :
             \E j \in 1..Len(response.page_results) :
                response.page_results[j] = all_page_results[i]

(***************************************************************************)
(* C7.  page_results lists the pages in the order of the request.          *)
(***************************************************************************)
C7_PageResultsInRequestOrder ==
    (endpoint = "extract-form" /\ response.status = 200) =>
        PageNumbers(response.page_results) = PageNumbers(request)

(***************************************************************************)
(* C8.  In the merged part data of batch_extract, the value of a box code  *)
(* within a part is the value of the first page, in page order, whose      *)
(* value for that code is non-empty (not null, 0, 0.00 or ""): a later     *)
(* non-empty value fills an empty earlier one and never replaces a         *)
(* non-empty one.                                                          *)
(***************************************************************************)
EntriesOf(items) ==
    Flatten([i \in 1..Len(items) |-> IF items[i].has_data THEN items[i].data ELSE <<>>])

\* every [code, value] the backend returned for a part, in page order
ReturnedEntries(part_key) ==
    Flatten([i \in 1..Len(returned) |->
                IF returned[i].kind \in {"dict", "list"}
                THEN EntriesOf(returned[i].parts[part_key]) ELSE <<>>])

ValuesOf(entries, code) ==
    LET of_code == SelectSeq(entries, LAMBDA e : e.code = code)
    IN  [i \in 1..Len(of_code) |-> of_code[i].value]

MergedValues(part_key, code) ==
    ValuesOf(EntriesOf(MergedItems(raw_results, part_key, all_part_data[part_key])), code)

C8_FirstNonEmptyWins ==
    k3_pc \in {"extract", "done"} =>
      \A part_key \in PartKeys, code \in Codes :
         LET seen == ValuesOf(ReturnedEntries(part_key), code)
             filled == SelectSeq(seen, LAMBDA v : ~IsEmptyValue(v))
         IN  filled # <<>> =>
               /\ MergedValues(part_key, code) # <<>>
               /\ Head(MergedValues(part_key, code)) = Head(filled)

(***************************************************************************)
(* C9.  process_pdf yields one consolidated partner record per detected    *)
(* K-3 page range, in range order, and each record's page_reference is     *)
(* its own range "start-end".                                              *)
(***************************************************************************)
C9_OneRecordPerRange ==
    (k3_pc = "done" /\ k3_result.error = "") =>
      LET ranges == detect_k3_page_ranges(doc, ScanDefault)
          records == k3_result.partner_records
      IN  /\ Len(records) = Len(ranges)
          /\ \A i \in 1..Len(ranges) :
               records[i].page_reference = PageReference(ranges[i][1], ranges[i][2])

(***************************************************************************)
(* C10.  When extraction failed for every rendered page (an error result   *)
(* or an exception on each), the result of batch_extract is an error       *)
(* object and holds no partner record.                                     *)
(***************************************************************************)
EveryPageFailed ==
    /\ returned # <<>>
    /\ \A i \in 1..Len(returned) : returned[i].kind \in {"error", "raise"}

C10_AllPagesFailedIsError ==
    (k3_pc = "done" /\ EveryPageFailed) =>
        /\ k3_result.error # ""
        /\ k3_result.partner_records = <<>>

(***************************************************************************)
(* C11.  In the 8805 and 8804 process_pdf pipelines every detected range   *)
(* appears in the final output as an extracted record or as a per-range    *)
(* error entry: records plus error entries equal the detected ranges.      *)
(***************************************************************************)
RecordsIn(result) ==
    Len(SelectSeq(result.extracted_forms, LAMBDA f : f.kind = "form"))
ErrorEntriesIn(result) ==
    Len(SelectSeq(result.extracted_forms, LAMBDA f : f.kind = "error"))

C11_EveryRangeAccountedFor ==
    (pp_pc = "done" /\ pp_result.error = "") =>
        RecordsIn(pp_result) + ErrorEntriesIn(pp_result) = Len(page_ranges)

(***************************************************************************)
(* C12.  A model response that fails to parse as JSON is handed back to    *)
(* the caller as an error that carries the raw response text: in           *)
(* /extract-form, a chunk whose answer was neither parsed by the SDK nor   *)
(* valid JSON leaves an error on a page result of that chunk.              *)
(***************************************************************************)
ParseFailed(r) == ~r.response.parsed /\ ~r.response.json_ok

C12_ParseFailureIsReported ==
    (endpoint = "extract-form" /\ response.status = 200) =>
      \A i \in 1..Len(model_responses) :
         ParseFailed(model_responses[i]) =>
            \E j \in 1..Len(response.page_results) :
               /\ \E k \in 1..Len(model_responses[i].pages) :
                     model_responses[i].pages[k] = response.page_results[j].page_number
               /\ response.page_results[j].error # ""

(***************************************************************************)
(* C13.  For W-2, 1099-INT and K-1 and every parsed raw JSON object, also  *)
(* one that defines none of the canonical fields, the transformer's output *)
(* contains every box code of the form's canonical schema.                 *)
(***************************************************************************)
\* the <<code, value>> pairs of the data entries anywhere in a value
RECURSIVE CodeValues(_)
CodeValues(x) ==
    (IF HasKey(x, <<"code">>) /\ Get(x, <<"code">>).t = "str"
     THEN {<<Get(x, <<"code">>).v, Get(x, <<"value">>)>>} ELSE {})
    \cup UNION {CodeValues(x.kids[i].val) : i \in 1..Len(x.kids)}

CodesIn(x) == {cv[1] : cv \in CodeValues(x)}

\* the box codes of the schema each transformer writes for a model answer
\* that is already in the schema (for W-2, of its only output literal)
CanonicalCodes(form) ==
    CASE form = "W-2" -> CodesIn(W2Result(<<>>))
      [] form = "1099-INT" ->
            CodesIn(processed_form_1099(JDict(<<>>), JList(<<>>), JList(<<>>), JNull))
      [] form = "K-1" -> CodesIn(cleaned_partner(JDict(<<>>), 0))

C13_OutputHasEveryCanonicalCode ==
    (nz_pc # "parsed" /\ nz_form \in TransformerForms /\ raw_result.t = "dict") =>
        CanonicalCodes(nz_form) \subseteq CodesIn(transformed)

(***************************************************************************)
(* C14.  A transformer applied to its own output returns the same value    *)
(* for every box code.                                                     *)
(***************************************************************************)
C14_TransformIsIdempotent ==
    (nz_pc = "again" /\ CodesIn(transformed) # {}) =>
        \A cv \in CodeValues(transformed) : cv \in CodeValues(retransformed)


(***************************************************************************)
(* C15.  Every page whose text contains "Schedule K-1", "(Form 1065)",     *)
(* "Part I" and "Information About the Partnership" is among the pages     *)
(* detect_k1_pages returns when called with its default arguments.         *)
(***************************************************************************)
HasK1Signature(text) ==
    /\ In("Schedule K-1", text)
    /\ In("(Form 1065)", text)
    /\ In("Part I", text)
    /\ In("Information About the Partnership", text)

C15_K1PageIsDetected ==
    "k1_detected_pages" \in detected =>
        \A p \in 1..Len(doc) :
            HasK1Signature(doc[p]) =>
                \E i \in 1..Len(k1_detected_pages) : k1_detected_pages[i] = p

(***************************************************************************)
(* C16.  A page lies in a detected K-3 range if and only if its text       *)
(* contains "Schedule K-3" and not "Schedule K-1"; a 12-page document in   *)
(* which exactly pages 2 to 11 are such pages yields the single range      *)
(* (2, 11).                                                                *)
(***************************************************************************)
HasK3Signature(text) == In("Schedule K-3", text) /\ ~In("Schedule K-1", text)

InSomeRange(p, ranges) ==
    \E i \in 1..Len(ranges) : ranges[i][1] <= p /\ p <= ranges[i][2]

TwoToElevenAreK3 ==
    /\ Len(doc) = 12
    /\ \A p \in 1..12 : HasK3Signature(doc[p]) <=> p \in 2..11

C16_K3PagesAndScenario ==
    "k3_detected_ranges" \in detected =>
        /\ \A p \in 1..Len(doc) :
              InSomeRange(p, k3_detected_ranges) <=> HasK3Signature(doc[p])
        /\ TwoToElevenAreK3 => k3_detected_ranges = << <<2, 11>> >>

C16_Witness ==
    /\ "k3_detected_ranges" \in detected
    /\ TwoToElevenAreK3
    /\ k3_detected_ranges = << <<2, 11>> >>

(***************************************************************************)
(* C17.  A page lies in a detected Form 8804 range exactly when its text   *)
(* contains ("Form 8804" and not "Schedule K-1") or ("Schedule K-1" and    *)
(* "(Form 8804)"), and the page carries no Form 8805, Schedule K-1         *)
(* (Form 1065) or Schedule K-3 signature.                                  *)
(***************************************************************************)
Stated8804Rule(text) ==
    /\ \/ In("Form 8804", text) /\ ~In("Schedule K-1", text)
       \/ In("Schedule K-1", text) /\ In("(Form 8804)", text)
    /\ ~Is8805Page(text)
    /\ ~(In("Schedule K-1", text) /\ In("(Form 1065)", text))
    /\ ~In("Schedule K-3", text)

C17_8804PageRule ==
    "detected_ranges_8804" \in detected =>
        \A p \in 1..Len(doc) :
            InSomeRange(p, detected_ranges_8804) <=> Stated8804Rule(doc[p])

(***************************************************************************)
(* C18.  In _extract_with_groq of the K-3, 8805 and 8804 extractors, a     *)
(* rate-limit error (429 / rate_limit) of the primary client, with a       *)
(* backup client configured, is followed at once by one call of the backup *)
(* client with the same model and prompt, before any other backend or OCR; *)
(* the backup is called at most once and only after such an error.         *)
(***************************************************************************)
RateLimited(outcome) ==
    outcome \in {"Error code: 429 - Too Many Requests", "Rate_Limit reached for model"}

BackupCalls == {i \in 1..Len(calls) : calls[i].backend = "groq_backup"}

C18_BackupAfterRateLimit ==
    extractor \in FormExtractors =>
        /\ \A i \in 1..Len(calls) :
              (calls[i].backend = "groq" /\ RateLimited(calls[i].outcome)
                 /\ clients.groq_backup) =>
                 IF i = Len(calls) THEN ex_pc = "groq_backup"
                 ELSE /\ calls[i + 1].backend = "groq_backup"
                      /\ calls[i + 1].model = calls[i].model
                      /\ calls[i + 1].prompt = calls[i].prompt
        /\ Cardinality(BackupCalls) <= 1
        /\ \A i \in BackupCalls :
              /\ i > 1
              /\ calls[i - 1].backend = "groq"
              /\ RateLimited(calls[i - 1].outcome)

C18_Witness ==
    /\ extractor \in FormExtractors
    /\ \E i \in 1..Len(calls) :
          /\ calls[i].backend = "groq" /\ RateLimited(calls[i].outcome)
          /\ i + 2 <= Len(calls)
          /\ calls[i + 1].backend = "groq_backup"
          /\ calls[i + 2].backend = "ocr"

(***************************************************************************)
(* C19.  In the form extractors' extract(), when no vision backend         *)
(* answered (none configured, none selected, or each one raised) and OCR   *)
(* is available, OCR runs and its result, if it succeeds, is returned;     *)
(* the "No extraction method available" error is returned only when OCR    *)
(* is unavailable or raised.                                               *)
(***************************************************************************)
NoVisionAnswer ==
    \A i \in 1..Len(calls) : calls[i].backend # "ocr" => calls[i].outcome \in ErrorTexts

OcrCalls == {i \in 1..Len(calls) : calls[i].backend = "ocr"}

C19_OcrIsTheLastResort ==
    (extractor \in FormExtractors /\ ex_pc = "done") =>
        /\ (NoVisionAnswer /\ clients.tesseract) =>
              /\ OcrCalls # {}
              /\ \A i \in OcrCalls :
                    calls[i].outcome = "text" => ex_result.kind = "ocr_data"
        /\ ex_result.kind = "no_method" =>
              \/ ~clients.tesseract
              \/ \E i \in OcrCalls : calls[i].outcome \in ErrorTexts

C19_Witness ==
    /\ extractor \in FormExtractors
    /\ ex_pc = "done"
    /\ \E i \in 1..Len(calls) : calls[i].backend # "ocr" /\ calls[i].outcome \in ErrorTexts
    /\ NoVisionAnswer
    /\ ex_result.kind = "ocr_data"

(***************************************************************************)
(* C20.  A vision backend family is called only when the requested model   *)
(* id contains the family's substring and that provider's client is        *)
(* configured.                                                             *)
(***************************************************************************)
FamilyOf(backend) ==
    CASE backend = "gemini" -> "gemini"
      [] backend \in {"groq", "groq_backup"} -> "llama"
      [] backend = "openai" -> "gpt"

Configured(backend) ==
    CASE backend = "gemini" -> clients.gemini
      [] backend = "groq" -> clients.groq
      [] backend = "groq_backup" -> clients.groq_backup
      [] backend = "openai" -> clients.openai

C20_BackendMatchesModelId ==
    \A i \in 1..Len(calls) :
        calls[i].backend # "ocr" =>
            /\ InModelLower(FamilyOf(calls[i].backend), calls[i].model)
            /\ Configured(calls[i].backend)

(***************************************************************************)
(* C21.  Each process_pdf pipeline runs detection, then rendering, then    *)
(* extraction, in that order and each at most once; a detection that finds *)
(* no pages ends the run in the "no forms found" error with nothing        *)
(* rendered and no backend call, and a rendering that yields no image ends *)
(* it in an error with no backend call.                                    *)
(***************************************************************************)
StageSteps ==
    {<<"start", "detected">>, <<"start", "done">>, <<"detected", "extract">>,
     <<"detected", "done">>, <<"extract", "done">>, <<"extract", "raised">>}

K3StagesStep ==
    /\ k3_pc' # k3_pc => <<k3_pc, k3_pc'>> \in StageSteps
    /\ k3_pages' # k3_pages => k3_pc = "start"
    /\ page_images' # page_images => k3_pc = "detected"
    /\ returned' # returned => k3_pc = "extract" /\ k3_pc' = "extract"

PpStagesStep ==
    /\ pp_pc' # pp_pc => <<pp_pc, pp_pc'>> \in StageSteps
    /\ page_ranges' # page_ranges => pp_pc = "start"
    /\ range_images' # range_images => pp_pc = "detected"
    /\ range_pos' # range_pos => pp_pc = "extract" /\ range_pos' = range_pos + 1

K3EarlyExits ==
    /\ (k3_pc \notin {"idle", "start"} /\ k3_pages = <<>>) =>
          /\ k3_pc = "done"
          /\ k3_result.error = "No K-3 forms found in PDF"
          /\ page_images = <<>>
          /\ returned = <<>>
    /\ (k3_pc \notin {"idle", "start", "detected"} /\ page_images = <<>>) =>
          /\ k3_pc = "done"
          /\ k3_result.error # ""
          /\ returned = <<>>

PpEarlyExits ==
    /\ (pp_pc \notin {"idle", "start"} /\ page_ranges = <<>>) =>
          /\ pp_pc = "done"
          /\ pp_result.error = NoFormsFound(processor)
          /\ range_images = <<>>
          /\ range_pos = 0
    /\ (pp_pc \notin {"idle", "start", "detected"} /\ range_images = <<>>) =>
          /\ pp_pc = "done"
          /\ pp_result.error # ""
          /\ range_pos = 0

C21_StagesInOrder ==
    /\ [][K3StagesStep /\ PpStagesStep]_vars
    /\ [](K3EarlyExits /\ PpEarlyExits)

\* detection found pages, rendering gave no image, the run ended with no call
C21_Witness ==
    /\ k3_pc = "done"
    /\ k3_pages # <<>>
    /\ page_images = <<>>
    /\ k3_result.error = "Failed to convert K-3 pages"
    /\ returned = <<>>


(***************************************************************************)
(* C22.  api_calls_made in the usage of a /extract-form response equals    *)
(* the number of chunks the request handed to the backend: one per chunk   *)
(* of at most MAX_PAGES_PER_BATCH pages of each supported form type.       *)
(***************************************************************************)
C22_ApiCallsMadeCountsChunks ==
    (endpoint = "extract-form" /\ pc = "done" /\ response.status = 200) =>
        response.api_calls_made = Len(chunks_sent)

(***************************************************************************)
(* C23.  document_metadata of the consolidated K-3 result is the metadata  *)
(* of the first page, in page order, whose metadata (partnership name,     *)
(* EIN, tax year) is non-empty; no later page's metadata replaces it.      *)
(***************************************************************************)
NonEmptyMetadata(result) ==
    /\ result.kind \in {"dict", "list"}
    /\ \/ result.md.partnership_name # ""
       \/ result.md.partnership_ein # ""
       \/ result.md.tax_year # ""

FirstWithMetadata ==
    CHOOSE i \in 1..Len(returned) :
        /\ NonEmptyMetadata(returned[i])
        /\ \A j \in 1..(i - 1) : ~NonEmptyMetadata(returned[j])

C23_MetadataOfFirstNonEmptyPage ==
    (/\ k3_pc = "done" /\ k3_result.error = ""
     /\ \E i \in 1..Len(returned) : NonEmptyMetadata(returned[i])) =>
        LET md == returned[FirstWithMetadata].md
        IN  /\ k3_result.document_metadata.partnership_name = md.partnership_name
            /\ k3_result.document_metadata.partnership_ein = md.partnership_ein
            /\ md.tax_year # "" =>
                   k3_result.document_metadata.tax_year = md.tax_year

(***************************************************************************)
(* C27.  The raw results recorded in _debug_raw_results are what the       *)
(* backend returned for each page: merging a later page never changes a    *)
(* value inside an earlier page's recorded raw result.                     *)
(***************************************************************************)
Recorded == SelectSeq(returned, LAMBDA r : r.kind # "raise")

C27_RawResultsAreAsReturned ==
    (k3_pc = "done" /\ k3_result.error = "") =>
        /\ Len(k3_result.debug_raw_results) = Len(Recorded)
        /\ \A i \in 1..Len(Recorded) :
              k3_result.debug_raw_results[i].raw = Recorded[i]

(***************************************************************************)
(* C24.  /extract-form files each extracted form under the page it was     *)
(* found on, the page number the model gave for it; the first page of the  *)
(* chunk is used only for a form without a page number or with one that    *)
(* is not a page of the chunk.                                             *)
(***************************************************************************)
FiledUnder(form_name, page_number) ==
    \E j \in 1..Len(all_page_results) :
        /\ all_page_results[j].page_number = page_number
        /\ \E m \in 1..Len(all_page_results[j].extracted_forms) :
              all_page_results[j].extracted_forms[m].form_name = form_name

ExpectedPage(form, pages) ==
    IF /\ "page_number" \in DOMAIN form
       /\ \E i \in 1..Len(pages) : pages[i] = form.page_number
    THEN form.page_number
    ELSE pages[1]

C24_FormsFiledUnderTheirPage ==
    \A k \in 1..Len(model_responses) :
        LET resp == model_responses[k].response
        IN  (resp.parsed \/ resp.json_ok) =>
                \A i \in 1..Len(resp.forms) :
                    FiledUnder(resp.forms[i].form_name,
                               ExpectedPage(resp.forms[i], model_responses[k].pages))

(***************************************************************************)
(* C25.  For a raw dict without an "error" key, transform_to_w2_structure  *)
(* returns a list of one element holding one form whose form_number is     *)
(* "W-2", whose boxes list has exactly 4 plane groups and whose            *)
(* identification plane has exactly 5 items.                               *)
(***************************************************************************)
W2FormsOf(result) == Get(result.kids[1].val, <<"forms">>)
W2BoxesOf(result) == Get(W2FormsOf(result).kids[1].val, <<"boxes">>)

C25_W2OutputShape ==
    (/\ nz_form = "W-2" /\ nz_pc # "parsed"
     /\ raw_result.t = "dict" /\ ~HasKey(raw_result, <<"error">>)) =>
        /\ transformed.t = "list" /\ Len(transformed.kids) = 1
        /\ Len(W2FormsOf(transformed).kids) = 1
        /\ Get(Get(W2FormsOf(transformed).kids[1].val, <<"form", "_", "header">>),
               <<"form", "_", "number">>) = JStr("W-2")
        /\ Len(W2BoxesOf(transformed).kids) = 4
        /\ Len(Get(W2BoxesOf(transformed).kids[1].val,
                   <<"identification", "_", "plane">>).kids) = 5

(***************************************************************************)
(* C28.  In transform_to_w2_structure the value of a box comes only from   *)
(* the raw keys of that box: with a non-empty key box_1 code "1" is that   *)
(* value whatever the order of the keys, and with no key for box 1 code    *)
(* "1" is 0.00 even when keys of other boxes (box_10 ...) are present.     *)
(***************************************************************************)
Box1Keys ==
    <<<<"box", "_", "1">>, <<"box", "1">>, <<"wages">>, <<"wages", "_", "tips">>>>

\* the fields of the flattened input whose key is a name of box 1
OwnFieldsOfBox1(flat) ==
    SelectSeq(flat, LAMBDA kv : \E i \in 1..Len(Box1Keys) : Lower(kv.k) = Box1Keys[i])

C28_Box1OnlyFromItsOwnKeys ==
    (nz_form = "W-2" /\ nz_pc # "parsed" /\ raw_result \in FlatObjects) =>
        \A cv \in CodeValues(transformed) :
            cv[1] = "1" =>
                cv[2] = find_number_w2(OwnFieldsOfBox1(FlatOf(raw_result)), Box1Keys)

(***************************************************************************)
(* C26.  A successful /extract-form response to a request whose pages have *)
(* distinct page numbers has exactly one page result per requested page,   *)
(* holds every extracted form in exactly one page result, and reports a    *)
(* total of extracted forms equal to the sum of the lengths of             *)
(* extracted_forms over page_results.                                      *)
(***************************************************************************)
DistinctPageNumbers ==
    \A i, j \in 1..Len(request) :
        i # j => request[i].page_number # request[j].page_number

\* where a form of the k-th answered chunk sits in the page results
PlacesOf(form, k) ==
    LET results == response.page_results
        pages == {model_responses[k].pages[i] :
                     i \in 1..Len(model_responses[k].pages)}
    IN  UNION {{<<j, m>> : m \in {n \in 1..Len(results[j].extracted_forms) :
                                     results[j].extracted_forms[n] = form}} :
               j \in {h \in 1..Len(results) : results[h].page_number \in pages}}

C26_OneResultPerPageFormsOnce ==
    (/\ endpoint = "extract-form" /\ pc = "done" /\ response.status = 200
     /\ DistinctPageNumbers) =>
        /\ Len(response.page_results) = Len(request)
        /\ \A i \in 1..Len(request) :
              Cardinality({j \in 1..Len(response.page_results) :
                  response.page_results[j].page_number = request[i].page_number}) = 1
        /\ \A k \in 1..Len(model_responses) :
              LET chunk_forms == ChunkForms(model_responses[k].response)
              IN  \A i \in 1..Len(chunk_forms) :
                     Cardinality(PlacesOf(chunk_forms[i], k)) = 1
        /\ response.forms_in_message = Len(ExtractedFormsList(response.page_results))

C26_Witness ==
    /\ endpoint = "extract-form" /\ pc = "done" /\ response.status = 200
    /\ Len(request) > MAX_PAGES_PER_BATCH
    /\ response.forms_in_message >= 4
    /\ \E j \in 1..Len(response.page_results) :
          Len(response.page_results[j].extracted_forms) = 2
    /\ \E j \in 1..Len(response.page_results) :
          response.page_results[j].error = "Unsupported form type"

(***************************************************************************)
(* C29.  In /extract-form every page whose detected type has no prompt     *)
(* configuration gets a page result with empty extracted_forms and an      *)
(* "Unsupported form type" error, no backend call is made for such pages,  *)
(* and the pages of the other form types of the request are still          *)
(* processed.                                                              *)
(***************************************************************************)
ResultsOf(page) ==
    {j \in 1..Len(response.page_results) :
        response.page_results[j].page_number = page.page_number}

SentToBackend(page) ==
    \E c \in 1..Len(chunks_sent) :
        \E i \in 1..Len(chunks_sent[c].pages) :
            chunks_sent[c].pages[i] = page.page_number

SaveRaised == save_calls > Len(history)

C30_HistoryNeverChangesResponse ==
    /\ save_calls <= 1
    /\ Len(history) <= save_calls
    /\ save_calls = 1 =>
          /\ endpoint = "extract-form" /\ pc = "done"
          /\ ExtractedFormsList(all_page_results) # <<>>
    /\ (endpoint = "extract-form" /\ pc = "done"
        /\ type_idx > Len(pages_by_type)) =>
          /\ response.status = 200 /\ response.success /\ response.has_data
          /\ response.page_results = all_page_results
          /\ response.forms_in_message = total_forms_extracted
          /\ response.api_calls_made = ApiCallsMade(Len(request))

C30_Witness ==
    /\ endpoint = "extract-form" /\ pc = "done"
    /\ SaveRaised
    /\ response.status = 200
    /\ ExtractedFormsList(response.page_results) # <<>>

=============================================================================
